---- MODULE Spec2Model ----
(***************************************************************************)
(* VitalForge: the recommendation pipeline of vitalforge-dashboard         *)
(* (recommendations.py): statistical primitives, the rules engine, the     *)
(* narrative generator with its rules-derived fallback, and the single     *)
(* slot recommendation cache.                                              *)
(*                                                                         *)
(* Numbers.  Metric values are integers.  Python floats are modelled as    *)
(* exact rationals [n, d] with d > 0; the undefined value None of the      *)
(* helpers is the record with d = 0.  round(x) and round(x, k) are         *)
(* round-half-to-even on the exact rational; round(x, k) is kept as the    *)
(* integer number of 10^-k units.  An optional payload value is <<>> for   *)
(* None and <<v>> for v.                                                   *)
(***************************************************************************)
EXTENDS Integers, Sequences, FiniteSets, TLC

VARIABLES
    store,      \* the metric store: what the 30-day query returns per metric
    now,        \* the wall clock, time.time(), in seconds
    cache,      \* recommendations._cache
    env,        \* ANTHROPIC_API_KEY / ANTHROPIC_BASE_URL set, anthropic importable
    pc,         \* per caller: position in get_recommendations / get_rules_only
    force,      \* per caller: the force argument of the running call
    data_hash,  \* per caller: local `data_hash` (line 497)
    findings,   \* per caller: local `findings` (line 507)
    t_now,      \* per caller: local `now` (line 499)
    response,   \* per caller: what the model request came to (lines 454-468)
    requests,   \* per caller: model requests sent by the running call
    ret,        \* per caller: the value a finished call hands to its client
    entry_fresh, \* observer, per caller: whether the entry the running call
                \* found in the slot passed the hash, age and non-empty tests
    last,       \* observer: hash read and response of the latest finished
                \* get_recommendations call, if it was a force=False call
    sync,       \* app._sync_lock, the _do_sync tasks of POST /api/sync and the
                \* position of the scheduled_sync task
    input,      \* SpecRules: the MetricSet and the date handed to run_rules
    output      \* SpecRules: the findings of run_rules and their fallback
                \* rendering, with the stage reached

vars == <<store, now, cache, env, pc, force, data_hash, findings, t_now, response,
          requests, ret, entry_fresh, last, sync, input, output>>

----------------------------------------------------------------------------
(* Sequences and Python slices *)

Min(a, b) == IF a < b THEN a ELSE b

Max(a, b) == IF a > b THEN a ELSE b

Abs(a) == IF a < 0 THEN -a ELSE a

\* s[lo:hi] with Python's handling of negative and out-of-range indices
PyIndex(len, i) == IF i < 0 THEN Max(0, len + i) ELSE Min(len, i)

PySlice(s, lo, hi) ==
    LET a == PyIndex(Len(s), lo)
        b == PyIndex(Len(s), hi)
    IN  IF a >= b THEN <<>> ELSE SubSeq(s, a + 1, b)

\* s[-n:] for n >= 1
LastN(s, n) == PySlice(s, -n, Len(s))

\* s[:n]
FirstN(s, n) == PySlice(s, 0, n)

\* sum(s[lo..hi]), by halves
RECURSIVE SumRange(_, _, _)
SumRange(s, lo, hi) ==
    IF lo > hi THEN 0
    ELSE IF lo = hi THEN s[lo]
    ELSE LET mid == (lo + hi) \div 2
         IN  SumRange(s, lo, mid) + SumRange(s, mid + 1, hi)

SumSeq(s) == SumRange(s, 1, Len(s))

RECURSIVE MaxSeq(_)
MaxSeq(s) == IF Len(s) = 1 THEN s[1] ELSE Max(s[1], MaxSeq(Tail(s)))

Values(series) == [i \in 1..Len(series) |-> series[i].value]

----------------------------------------------------------------------------
(* Exact rationals standing for Python floats *)

RECURSIVE GCD(_, _)
GCD(a, b) == IF b = 0 THEN a ELSE GCD(b, a % b)

None == [n |-> 0, d |-> 0]

\* what a division by zero comes to: the exception, as a value
ZeroDivisionError == [n |-> 0, d |-> 0, raised |-> "ZeroDivisionError"]

\* n / d
Rat(n, d) ==
    LET g == GCD(Abs(n), Abs(d))
        s == IF d < 0 THEN -1 ELSE 1
    IN  IF d = 0 THEN ZeroDivisionError
        ELSE [n |-> s * (n \div g), d |-> s * (d \div g)]

Int2Rat(i) == [n |-> i, d |-> 1]

RatSub(a, b) == Rat(a.n * b.d - b.n * a.d, a.d * b.d)

RatMul(a, b) == Rat(a.n * b.n, a.d * b.d)

RatDiv(a, b) == Rat(a.n * b.d, a.d * b.n)

RatLt(a, b) == a.n * b.d < b.n * a.d

RatGt(a, b) == RatLt(b, a)

\* abs() left out
RatAbs_dropped(a) == a

RatAbs(a) == [n |-> Abs(a.n), d |-> a.d]

IsNone(a) == a = None

\* Python truthiness of a float-or-None: None and 0.0 are false
Truthy(a) == a.d # 0 /\ a.n # 0

\* round(n / d) for d > 0: round half to even
RoundHalfEven(n, d) ==
    LET q == n \div d
        r == n % d
    IN  IF 2 * r < d THEN q
        ELSE IF 2 * r > d THEN q + 1
        ELSE IF q % 2 = 0 THEN q ELSE q + 1

\* round(a): the nearest integer
Round0(a) == RoundHalfEven(a.n, a.d)

\* round(a, 1), round(a, 2), round(a, 3): in tenths, hundredths, thousandths
Round1(a) == RoundHalfEven(a.n * 10, a.d)

Round2(a) == RoundHalfEven(a.n * 100, a.d)

Round3(a) == RoundHalfEven(a.n * 1000, a.d)

----------------------------------------------------------------------------
(* Statistical primitives, recommendations.py lines 62-105 *)

\* a null list element; series never hold one (line 36 drops them)
NULL == -1000000

IsValid(v) == v # NULL

\* avg without the emptiness test of line 64
avg_without_guard(values) ==
    LET valid == SelectSeq(values, IsValid)
    IN  Rat(SumSeq(valid), Len(valid))

avg(values) ==
    LET valid == SelectSeq(values, IsValid)
    IN  IF valid # <<>> THEN Rat(SumSeq(valid), Len(valid)) ELSE None

\* recent_values taking every value instead of the last n
recent_values_whole_series(series, n) == Values(series)

recent_values(series, n) == Values(LastN(series, n))

\* trend_slope over the whole series instead of data[-n:]
trend_slope_whole_series(series, n) ==
    LET pts == series
        vals == Values(pts)
        n_pts == Len(vals)
        S == SumSeq(vals)
        num2n == SumSeq([i \in 1..n_pts |->
                    (2 * (i - 1) - (n_pts - 1)) * (n_pts * vals[i] - S)])
        den4 == SumSeq([i \in 1..n_pts |->
                    (2 * (i - 1) - (n_pts - 1)) * (2 * (i - 1) - (n_pts - 1))])
    IN  IF Len(pts) < 3 THEN None
        ELSE IF den4 # 0 THEN Rat(2 * num2n, n_pts * den4) ELSE None

\* trend_slope ignoring n: always the default window of 14
trend_slope_default_window(series, n) ==
    trend_slope_whole_series(LastN(series, 14), n)

\* num / den of lines 78-82, both scaled to integers:
\* sum (2i - (n-1)) (n v_i - S) = 2 n num   and   sum (2i - (n-1))^2 = 4 den
trend_slope(series, n) ==
    LET pts == LastN(series, n)
        vals == Values(pts)
        n_pts == Len(vals)
        S == SumSeq(vals)
        num2n == SumSeq([i \in 1..n_pts |->
                    (2 * (i - 1) - (n_pts - 1)) * (n_pts * vals[i] - S)])
        den4 == SumSeq([i \in 1..n_pts |->
                    (2 * (i - 1) - (n_pts - 1)) * (2 * (i - 1) - (n_pts - 1))])
    IN  IF Len(pts) < 3 THEN None
        ELSE IF den4 # 0 THEN Rat(2 * num2n, n_pts * den4) ELSE None

\* the values below the threshold anywhere in the window, not only at its end
CountBelowAnywhere(vals, threshold) ==
    Cardinality({i \in 1..Len(vals) : RatLt(Int2Rat(vals[i]), threshold)})

RECURSIVE CountBelowFromEnd(_, _)
CountBelowFromEnd(vals, threshold) ==
    IF vals = <<>> THEN 0
    ELSE IF RatLt(Int2Rat(vals[Len(vals)]), threshold)
         THEN 1 + CountBelowFromEnd(SubSeq(vals, 1, Len(vals) - 1), threshold)
         ELSE 0

RECURSIVE CountAboveFromEnd(_, _)
CountAboveFromEnd(vals, threshold) ==
    IF vals = <<>> THEN 0
    ELSE IF RatGt(Int2Rat(vals[Len(vals)]), threshold)
         THEN 1 + CountAboveFromEnd(SubSeq(vals, 1, Len(vals) - 1), threshold)
         ELSE 0

\* consecutive_below counting value <= threshold
consecutive_below_inclusive(series, threshold, from_end) ==
    LET vals == Values(LastN(series, from_end))
        n == Len(vals)
    IN  CHOOSE k \in 0..n :
            /\ \A i \in (n - k + 1)..n : ~RatGt(Int2Rat(vals[i]), threshold)
            /\ k < n => RatGt(Int2Rat(vals[n - k]), threshold)

\* consecutive_below ignoring from_end: always the default window of 7
consecutive_below_default_window(series, threshold, from_end) ==
    CountBelowFromEnd(Values(LastN(series, 7)), threshold)

\* threshold is a rational: the callers pass integers and averages
consecutive_below(series, threshold, from_end) ==
    CountBelowFromEnd(Values(LastN(series, from_end)), threshold)

consecutive_above(series, threshold, from_end) ==
    CountAboveFromEnd(Values(LastN(series, from_end)), threshold)

----------------------------------------------------------------------------
(* Rules engine, recommendations.py lines 112-355 *)

Metrics == <<"sleep_duration", "sleep_score", "resting_hr", "hrv", "body_battery",
             "stress", "vo2max", "weight", "training_load", "steps">>

MetricNames == {Metrics[i] : i \in 1..Len(Metrics)}

\* a message is its f-string template and the values formatted into it
Finding(category, severity, rule, fmt, args, payload) ==
    [category |-> category, severity |-> severity, rule |-> rule,
     message |-> [fmt |-> fmt, args |-> args], data |-> payload]

\* lines 117-139
SleepDurationRules(ms) ==
    LET sleep_dur == ms["sleep_duration"]
        consec == consecutive_below(sleep_dur, Int2Rat(7 * 3600), 7)
        slope == trend_slope(sleep_dur, 14)
        low == IF consec >= 3
               THEN <<Finding("sleep", "warning", "sleep_low_duration",
                        "Sleep under 7 hours for {} consecutive nights", <<consec>>,
                        [consecutive_days |-> consec,
                         recent_avg_hrs |->
                            IF recent_values(sleep_dur, 7) # <<>>
                            THEN <<Round1(RatDiv(avg(recent_values(sleep_dur, 7)),
                                                 Int2Rat(3600)))>>
                            ELSE <<>>])>>
               ELSE <<>>
        declining == IF ~IsNone(slope) /\ RatLt(slope, Int2Rat(-120))
               THEN <<Finding("sleep", "warning", "sleep_declining",
                        "Sleep duration trending downward over the past 2 weeks", <<>>,
                        [trend_min_per_day |-> Round1(RatDiv(slope, Int2Rat(60)))])>>
               ELSE <<>>
    IN  IF sleep_dur # <<>> THEN low \o declining ELSE <<>>

\* lines 141-151
SleepScoreRules(ms) ==
    LET sleep_score == ms["sleep_score"]
        consec == consecutive_below(sleep_score, Int2Rat(70), 7)
    IN  IF sleep_score # <<>> /\ consec >= 3
        THEN <<Finding("sleep", "warning", "sleep_low_score",
                 "Sleep score below 70 for {} consecutive days", <<consec>>,
                 [consecutive_days |-> consec,
                  recent_avg |-> Round0(avg(recent_values(sleep_score, 7)))])>>
        ELSE <<>>

\* the HRV detectors without the 7-point minimum of line 155
HrvRules_without_minimum(ms) ==
    LET hrv_data == ms["hrv"]
        avg_30 == avg(Values(hrv_data))
        avg_7 == avg(recent_values(hrv_data, 7))
        prev_7 == IF Len(hrv_data) >= 14 THEN avg(Values(PySlice(hrv_data, -14, -7)))
                  ELSE None
        consec == consecutive_below(hrv_data, avg_30, 10)
        pct_change == RatMul(RatDiv(RatSub(avg_7, prev_7), prev_7), Int2Rat(100))
        below == IF Truthy(avg_30) /\ consec >= 3
                 THEN <<Finding("recovery", "warning", "hrv_below_baseline",
                          "HRV below your baseline for {} consecutive days", <<consec>>,
                          [consecutive_days |-> consec, baseline |-> Round0(avg_30),
                           current_avg |-> IF Truthy(avg_7) THEN <<Round0(avg_7)>>
                                           ELSE <<>>])>>
                 ELSE <<>>
        drop == IF Truthy(prev_7) /\ Truthy(avg_7) /\ RatGt(prev_7, Int2Rat(0))
                   /\ RatLt(pct_change, Int2Rat(-15))
                THEN <<Finding("recovery", "alert", "hrv_weekly_drop",
                         "HRV dropped {}% week-over-week", <<Abs(Round0(pct_change))>>,
                         [this_week |-> Round0(avg_7), last_week |-> Round0(prev_7),
                          pct_change |-> Round1(pct_change)])>>
                ELSE <<>>
    IN  IF hrv_data # <<>> THEN below \o drop ELSE <<>>

\* lines 154-180
HrvRules(ms) ==
    LET hrv_data == ms["hrv"]
        avg_30 == avg(Values(hrv_data))
        avg_7 == avg(recent_values(hrv_data, 7))
        prev_7 == IF Len(hrv_data) >= 14 THEN avg(Values(PySlice(hrv_data, -14, -7)))
                  ELSE None
        consec == consecutive_below(hrv_data, avg_30, 10)
        pct_change == RatMul(RatDiv(RatSub(avg_7, prev_7), prev_7), Int2Rat(100))
        below == IF Truthy(avg_30) /\ consec >= 3
                 THEN <<Finding("recovery", "warning", "hrv_below_baseline",
                          "HRV below your baseline for {} consecutive days", <<consec>>,
                          [consecutive_days |-> consec, baseline |-> Round0(avg_30),
                           current_avg |-> IF Truthy(avg_7) THEN <<Round0(avg_7)>>
                                           ELSE <<>>])>>
                 ELSE <<>>
        drop == IF Truthy(prev_7) /\ Truthy(avg_7) /\ RatGt(prev_7, Int2Rat(0))
                   /\ RatLt(pct_change, Int2Rat(-15))
                THEN <<Finding("recovery", "alert", "hrv_weekly_drop",
                         "HRV dropped {}% week-over-week", <<Abs(Round0(pct_change))>>,
                         [this_week |-> Round0(avg_7), last_week |-> Round0(prev_7),
                          pct_change |-> Round1(pct_change)])>>
                ELSE <<>>
    IN  IF hrv_data # <<>> /\ Len(hrv_data) >= 7 THEN below \o drop ELSE <<>>

\* lines 182-204
RhrRules(ms) ==
    LET rhr_data == ms["resting_hr"]
        avg_30 == avg(Values(rhr_data))
        latest == rhr_data[Len(rhr_data)].value
        slope == trend_slope(rhr_data, 14)
        elevated ==
            IF Truthy(avg_30) /\ RatGt(Int2Rat(latest), RatMul(avg_30, Rat(11, 10)))
            THEN <<Finding("recovery", "warning", "rhr_elevated",
                     "Resting HR at {} bpm - {}% above your average ({} bpm)",
                     <<latest,
                       Round0(RatMul(RatDiv(RatSub(Int2Rat(latest), avg_30), avg_30),
                                     Int2Rat(100))),
                       Round0(avg_30)>>,
                     [current |-> latest, baseline |-> Round0(avg_30)])>>
            ELSE <<>>
        trending ==
            IF ~IsNone(slope) /\ RatGt(slope, Rat(2, 10))
            THEN <<Finding("recovery", "warning", "rhr_trending_up",
                     "Resting heart rate trending upward over the past 2 weeks", <<>>,
                     [trend_bpm_per_day |-> Round2(slope)])>>
            ELSE <<>>
    IN  IF rhr_data # <<>> /\ Len(rhr_data) >= 7 THEN elevated \o trending ELSE <<>>

\* lines 206-216
BodyBatteryRules(ms) ==
    LET bb_data == ms["body_battery"]
        consec == consecutive_below(bb_data, Int2Rat(80), 7)
    IN  IF bb_data # <<>> /\ consec >= 3
        THEN <<Finding("recovery", "warning", "body_battery_low",
                 "Body Battery hasn't recovered above 80 for {} consecutive days",
                 <<consec>>,
                 [consecutive_days |-> consec,
                  recent_high |-> MaxSeq(recent_values(bb_data, 3))])>>
        ELSE <<>>

\* lines 219-239
StressRules(ms) ==
    LET stress_data == ms["stress"]
        consec == consecutive_above(stress_data, Int2Rat(50), 7)
        slope == trend_slope(stress_data, 14)
        high == IF consec >= 3
                THEN <<Finding("stress", "warning", "stress_high",
                         "Average daily stress above 50 for {} consecutive days",
                         <<consec>>,
                         [consecutive_days |-> consec,
                          recent_avg |-> Round0(avg(recent_values(stress_data, 7)))])>>
                ELSE <<>>
        trending == IF ~IsNone(slope) /\ RatGt(slope, Rat(5, 10))
                THEN <<Finding("stress", "warning", "stress_trending_up",
                         "Stress levels trending upward over the past 2 weeks", <<>>,
                         [trend_per_day |-> Round2(slope)])>>
                ELSE <<>>
    IN  IF stress_data # <<>> THEN high \o trending ELSE <<>>

\* lines 242-286; today is datetime.now().date() as a day number
WeightRules(ms, today) ==
    LET weight_data == ms["weight"]
        last_date == weight_data[Len(weight_data)].date
        days_since == today - last_date
        recent_avg == avg(recent_values(weight_data, 7))
        prev_avg == avg(Values(PySlice(weight_data, -14, -7)))
        weekly_change == RatSub(recent_avg, prev_avg)
        avg_3wk_ago == avg(Values(PySlice(weight_data, -21, -14)))
        change_3wk == RatAbs(RatSub(recent_avg, avg_3wk_ago))
        tl == ms["training_load"]
        has_training == Len(tl) >= 7 /\ Truthy(avg(recent_values(tl, 7)))
                        /\ RatGt(avg(recent_values(tl, 7)), Int2Rat(0))
        no_data == IF days_since >= 7
                   THEN <<Finding("body_composition", "info", "weight_no_data",
                            "No weight data logged in {} days", <<days_since>>,
                            [days_since |-> days_since])>>
                   ELSE <<>>
        gain == IF Len(weight_data) >= 14 /\ Truthy(recent_avg) /\ Truthy(prev_avg)
                   /\ RatGt(weekly_change, Int2Rat(907))
                THEN <<Finding("body_composition", "warning", "weight_rapid_gain",
                         "Weight increasing at {} lbs/week",
                         <<Round1(RatDiv(weekly_change, Rat(4536, 10)))>>,
                         [weekly_change_g |-> Round0(weekly_change),
                          weekly_change_lbs |->
                             Round1(RatDiv(weekly_change, Rat(4536, 10)))])>>
                ELSE <<>>
        plateau == IF Len(weight_data) >= 14 /\ Len(weight_data) >= 21
                      /\ Truthy(recent_avg) /\ Truthy(avg_3wk_ago)
                      /\ RatLt(change_3wk, Int2Rat(227)) /\ has_training
                   THEN <<Finding("body_composition", "info", "weight_plateau",
                            "Weight has plateaued over the past 3 weeks despite active training",
                            <<>>, [change_g |-> Round0(change_3wk)])>>
                   ELSE <<>>
    IN  IF weight_data # <<>> THEN no_data \o gain \o plateau ELSE <<>>

\* lines 289-326
ActivityRules(ms) ==
    LET steps_data == ms["steps"]
        avg_steps == avg(recent_values(steps_data, 7))
        tl_data == ms["training_load"]
        avg_recent == avg(recent_values(tl_data, 7))
        avg_prev == avg(Values(PySlice(tl_data, -14, -7)))
        ratio == RatDiv(avg_recent, avg_prev)
        vo2_data == ms["vo2max"]
        slope == trend_slope(vo2_data, 14)
        steps_low ==
            IF steps_data # <<>> /\ Len(steps_data) >= 7
               /\ Truthy(avg_steps) /\ RatLt(avg_steps, Int2Rat(7000))
            THEN <<Finding("activity", "info", "steps_low",
                     "Daily step average this week is {:,} - below 7,000 target",
                     <<Round0(avg_steps)>>, [weekly_avg |-> Round0(avg_steps)])>>
            ELSE <<>>
        spike ==
            IF tl_data # <<>> /\ Len(tl_data) >= 14
               /\ Truthy(avg_recent) /\ Truthy(avg_prev) /\ RatGt(avg_prev, Int2Rat(0))
               /\ RatGt(ratio, Rat(13, 10))
            THEN <<Finding("activity", "warning", "training_load_spike",
                     "Training load {}% above last week - overtraining risk",
                     <<Round0(RatMul(RatSub(ratio, Int2Rat(1)), Int2Rat(100)))>>,
                     [this_week |-> Round0(avg_recent), last_week |-> Round0(avg_prev),
                      ratio |-> Round2(ratio)])>>
            ELSE <<>>
        vo2 ==
            IF vo2_data # <<>> /\ Len(vo2_data) >= 14
               /\ ~IsNone(slope) /\ RatLt(slope, Rat(-3, 100))
            THEN <<Finding("activity", "warning", "vo2max_declining",
                     "VO2 Max is declining", <<>>, [trend_per_day |-> Round3(slope)])>>
            ELSE <<>>
    IN  steps_low \o spike \o vo2

\* lines 329-353
CorrelationRules(ms) ==
    LET sleep_dur == ms["sleep_duration"]
        rhr_data == ms["resting_hr"]
        hrv_data == ms["hrv"]
        tl_data == ms["training_load"]
        rhr_avg == avg(Values(rhr_data))
        hrv_avg == avg(Values(hrv_data))
        tl_avg == avg(Values(tl_data))
        poor_sleep == Len(sleep_dur) >= 3 /\ Truthy(avg(recent_values(sleep_dur, 3)))
                      /\ RatLt(avg(recent_values(sleep_dur, 3)), Int2Rat(6 * 3600))
        elevated_rhr == rhr_data # <<>> /\ Truthy(rhr_avg)
                        /\ RatGt(Int2Rat(rhr_data[Len(rhr_data)].value),
                                 RatMul(rhr_avg, Rat(105, 100)))
        low_hrv == hrv_data # <<>> /\ Truthy(hrv_avg)
                   /\ Truthy(avg(recent_values(hrv_data, 3)))
                   /\ RatLt(avg(recent_values(hrv_data, 3)), RatMul(hrv_avg, Rat(85, 100)))
        high_load == tl_data # <<>> /\ Len(tl_data) >= 7
                     /\ Truthy(avg(recent_values(tl_data, 7))) /\ Truthy(tl_avg)
                     /\ RatGt(avg(recent_values(tl_data, 7)), RatMul(tl_avg, Rat(12, 10)))
        declining_hrv == hrv_data # <<>> /\ ~IsNone(trend_slope(hrv_data, 7))
                         /\ RatLt(trend_slope(hrv_data, 7), Rat(-5, 10))
        deficit ==
            IF sleep_dur # <<>> /\ rhr_data # <<>> /\ hrv_data # <<>>
               /\ poor_sleep /\ elevated_rhr /\ low_hrv
            THEN <<Finding("correlation", "alert", "recovery_deficit",
                     "Multiple recovery markers indicate a recovery deficit: poor sleep, elevated resting HR, and low HRV",
                     <<>>, <<>>)>>
            ELSE <<>>
        overtraining ==
            IF tl_data # <<>> /\ hrv_data # <<>> /\ rhr_data # <<>>
               /\ high_load /\ declining_hrv /\ elevated_rhr
            THEN <<Finding("correlation", "alert", "overtraining_risk",
                     "High training load combined with declining HRV and elevated resting HR suggests overtraining risk",
                     <<>>, <<>>)>>
            ELSE <<>>
    IN  deficit \o overtraining

\* run_rules with the correlation block moved ahead of the per-category blocks
run_rules_correlations_first(ms, today) ==
    CorrelationRules(ms)
    \o SleepDurationRules(ms) \o SleepScoreRules(ms)
    \o HrvRules(ms) \o RhrRules(ms) \o BodyBatteryRules(ms)
    \o StressRules(ms)
    \o WeightRules(ms, today)
    \o ActivityRules(ms)

\* data.get(key, []): a metric the caller did not supply is the empty series
Get(ms, key) == IF key \in DOMAIN ms THEN ms[key] ELSE <<>>

WithDefaults(ms) == [m \in MetricNames |-> Get(ms, m)]

run_rules(ms, today) ==
    LET data == WithDefaults(ms)
    IN  SleepDurationRules(data) \o SleepScoreRules(data)
        \o HrvRules(data) \o RhrRules(data) \o BodyBatteryRules(data)
        \o StressRules(data)
        \o WeightRules(data, today)
        \o ActivityRules(data)
        \o CorrelationRules(data)

\* The partial operations of run_rules, each under the conditions on which the
\* code reaches it: TRUE when one of them raises (round(None), max([]), a
\* division by zero).
run_rules_raises(ms, today) ==
    LET data == WithDefaults(ms)
        sleep_dur == data["sleep_duration"]
        sleep_score == data["sleep_score"]
        hrv_data == data["hrv"]
        rhr_data == data["resting_hr"]
        bb_data == data["body_battery"]
        stress_data == data["stress"]
        tl_data == data["training_load"]
        hrv_avg_7 == avg(recent_values(hrv_data, 7))
        hrv_prev_7 == IF Len(hrv_data) >= 14
                      THEN avg(Values(PySlice(hrv_data, -14, -7))) ELSE None
        rhr_avg_30 == avg(Values(rhr_data))
        avg_recent == avg(recent_values(tl_data, 7))
        avg_prev == avg(Values(PySlice(tl_data, -14, -7)))
    IN  \/ \* line 127: round(avg(recent_values(sleep_dur, 7)) / 3600, 1)
           /\ sleep_dur # <<>>
           /\ consecutive_below(sleep_dur, Int2Rat(7 * 3600), 7) >= 3
           /\ recent_values(sleep_dur, 7) # <<>>
           /\ IsNone(avg(recent_values(sleep_dur, 7)))
        \/ \* line 150: round(avg(recent_values(sleep_score, 7)))
           /\ sleep_score # <<>>
           /\ consecutive_below(sleep_score, Int2Rat(70), 7) >= 3
           /\ IsNone(avg(recent_values(sleep_score, 7)))
        \/ \* line 172: (avg_7 - prev_7) / prev_7
           /\ hrv_data # <<>> /\ Len(hrv_data) >= 7
           /\ Truthy(hrv_prev_7) /\ Truthy(hrv_avg_7) /\ RatGt(hrv_prev_7, Int2Rat(0))
           /\ RatDiv(RatSub(hrv_avg_7, hrv_prev_7), hrv_prev_7) = ZeroDivisionError
        \/ \* line 192: (latest - avg_30) / avg_30
           /\ rhr_data # <<>> /\ Len(rhr_data) >= 7
           /\ Truthy(rhr_avg_30)
           /\ RatGt(Int2Rat(rhr_data[Len(rhr_data)].value),
                    RatMul(rhr_avg_30, Rat(11, 10)))
           /\ RatDiv(RatSub(Int2Rat(rhr_data[Len(rhr_data)].value), rhr_avg_30),
                     rhr_avg_30) = ZeroDivisionError
        \/ \* line 215: max(recent_values(bb_data, 3))
           /\ bb_data # <<>>
           /\ consecutive_below(bb_data, Int2Rat(80), 7) >= 3
           /\ recent_values(bb_data, 3) = <<>>
        \/ \* line 228: round(avg(recent_values(stress_data, 7)))
           /\ stress_data # <<>>
           /\ consecutive_above(stress_data, Int2Rat(50), 7) >= 3
           /\ IsNone(avg(recent_values(stress_data, 7)))
        \/ \* line 306: avg_recent / avg_prev
           /\ tl_data # <<>> /\ Len(tl_data) >= 14
           /\ Truthy(avg_recent) /\ Truthy(avg_prev) /\ RatGt(avg_prev, Int2Rat(0))
           /\ RatDiv(avg_recent, avg_prev) = ZeroDivisionError

----------------------------------------------------------------------------
(* Metric series fed to the model.  Dates are day numbers; a series holds   *)
(* one point per day, ascending, as _get_metric returns it (lines 26-36).   *)

\* the day on which the model's clock starts
Day0 == 100

\* consecutive days ending on lastDay
MkSeries(vals, lastDay) ==
    [i \in 1..Len(vals) |-> [date |-> lastDay - Len(vals) + i, value |-> vals[i]]]

Const(n, v) == [i \in 1..n |-> v]

Linear(n, a, b) == [i \in 1..n |-> a + b * (i - 1)]

Profiles ==
    [sleep_duration |-> {<<>>, Const(7, 28800), Linear(14, 27000, -300), Const(3, 20000)},
     sleep_score    |-> {<<>>, Const(2, 60) \o Const(3, 65)},
     resting_hr     |-> {Const(7, 55), Const(10, 50) \o <<55, 60, 65, 70>>},
     hrv            |-> {<<>>, Const(7, 50), Linear(14, 66, -2)},
     body_battery   |-> {Const(4, 90), <<85, 70, 75, 79>>},
     stress         |-> {<<>>, Linear(14, 40, 2)},
     vo2max         |-> {<<>>, Linear(14, 500, -1)},
     weight         |-> {<<>>, Const(7, 80000) \o Const(7, 81000), Const(21, 80000)},
     training_load  |-> {<<>>, Const(7, 100) \o Const(7, 200)},
     steps          |-> {<<>>, Const(7, 5000)}]

EmptyMetricSet == [m \in MetricNames |-> <<>>]

\* The store of the cache model.  resting_hr and training_load hold too few
\* points for their own detectors and only feed the correlation rules; a
\* sync rewrites sleep_duration and hrv.
SyncedMetrics == {"sleep_duration", "hrv"}

SyncProfiles ==
    [sleep_duration |-> {<<>>, Linear(3, 23000, -2000)},
     hrv            |-> {<<>>, Linear(14, 66, -2)}]

BaseStore ==
    [EmptyMetricSet EXCEPT !["resting_hr"] = MkSeries(<<50, 50, 60>>, Day0),
                           !["training_load"] =
                               MkSeries(Const(3, 0) \o Const(7, 100), Day0)]

----------------------------------------------------------------------------
(* Narrative generator, recommendations.py lines 405-483 *)

\* the characters of a rule identifier (a Python str)
Chars(rule) ==
    CASE rule = "sleep_low_duration" ->
           <<"s", "l", "e", "e", "p", "_", "l", "o", "w", "_", "d", "u", "r", "a", "t", "i", "o", "n">>
      [] rule = "sleep_declining" ->
           <<"s", "l", "e", "e", "p", "_", "d", "e", "c", "l", "i", "n", "i", "n", "g">>
      [] rule = "sleep_low_score" ->
           <<"s", "l", "e", "e", "p", "_", "l", "o", "w", "_", "s", "c", "o", "r", "e">>
      [] rule = "hrv_below_baseline" ->
           <<"h", "r", "v", "_", "b", "e", "l", "o", "w", "_", "b", "a", "s", "e", "l", "i", "n", "e">>
      [] rule = "hrv_weekly_drop" ->
           <<"h", "r", "v", "_", "w", "e", "e", "k", "l", "y", "_", "d", "r", "o", "p">>
      [] rule = "rhr_elevated" ->
           <<"r", "h", "r", "_", "e", "l", "e", "v", "a", "t", "e", "d">>
      [] rule = "rhr_trending_up" ->
           <<"r", "h", "r", "_", "t", "r", "e", "n", "d", "i", "n", "g", "_", "u", "p">>
      [] rule = "body_battery_low" ->
           <<"b", "o", "d", "y", "_", "b", "a", "t", "t", "e", "r", "y", "_", "l", "o", "w">>
      [] rule = "stress_high" ->
           <<"s", "t", "r", "e", "s", "s", "_", "h", "i", "g", "h">>
      [] rule = "stress_trending_up" ->
           <<"s", "t", "r", "e", "s", "s", "_", "t", "r", "e", "n", "d", "i", "n", "g", "_", "u", "p">>
      [] rule = "weight_no_data" ->
           <<"w", "e", "i", "g", "h", "t", "_", "n", "o", "_", "d", "a", "t", "a">>
      [] rule = "weight_rapid_gain" ->
           <<"w", "e", "i", "g", "h", "t", "_", "r", "a", "p", "i", "d", "_", "g", "a", "i", "n">>
      [] rule = "weight_plateau" ->
           <<"w", "e", "i", "g", "h", "t", "_", "p", "l", "a", "t", "e", "a", "u">>
      [] rule = "steps_low" ->
           <<"s", "t", "e", "p", "s", "_", "l", "o", "w">>
      [] rule = "training_load_spike" ->
           <<"t", "r", "a", "i", "n", "i", "n", "g", "_", "l", "o", "a", "d", "_", "s", "p", "i", "k", "e">>
      [] rule = "vo2max_declining" ->
           <<"v", "o", "2", "m", "a", "x", "_", "d", "e", "c", "l", "i", "n", "i", "n", "g">>
      [] rule = "recovery_deficit" ->
           <<"r", "e", "c", "o", "v", "e", "r", "y", "_", "d", "e", "f", "i", "c", "i", "t">>
      [] rule = "overtraining_risk" ->
           <<"o", "v", "e", "r", "t", "r", "a", "i", "n", "i", "n", "g", "_", "r", "i", "s", "k">>

LowerCase == <<"a", "b", "c", "d", "e", "f", "g", "h", "i", "j", "k", "l", "m", "n", "o", "p", "q", "r", "s", "t", "u", "v", "w", "x", "y", "z">>

UpperCase == <<"A", "B", "C", "D", "E", "F", "G", "H", "I", "J", "K", "L", "M", "N", "O", "P", "Q", "R", "S", "T", "U", "V", "W", "X", "Y", "Z">>

IsLower(ch) == \E k \in 1..26 : LowerCase[k] = ch

IsLetter(ch) == \E k \in 1..26 : LowerCase[k] = ch \/ UpperCase[k] = ch

ToUpper(ch) == IF IsLower(ch) THEN UpperCase[CHOOSE k \in 1..26 : LowerCase[k] = ch]
               ELSE ch

ToLower(ch) == IF IsLetter(ch) /\ ~IsLower(ch)
               THEN LowerCase[CHOOSE k \in 1..26 : UpperCase[k] = ch]
               ELSE ch

\* str.replace(old, new) for one-character strings
Replace(s, old, new) == [i \in 1..Len(s) |-> IF s[i] = old THEN new ELSE s[i]]

\* str.title(): a letter is upper-cased when the character before it is not a
\* letter (or there is none), lower-cased otherwise
Title(s) ==
    [i \in 1..Len(s) |->
        IF i = 1 \/ ~IsLetter(s[i - 1]) THEN ToUpper(s[i]) ELSE ToLower(s[i])]

\* the rule identifiers run_rules can emit (lines 125-350)
RuleIds ==
    {"sleep_low_duration", "sleep_declining", "sleep_low_score",
     "hrv_below_baseline", "hrv_weekly_drop", "rhr_elevated", "rhr_trending_up",
     "body_battery_low", "stress_high", "stress_trending_up",
     "weight_no_data", "weight_rapid_gain", "weight_plateau",
     "steps_low", "training_load_spike", "vo2max_declining",
     "recovery_deficit", "overtraining_risk"}

\* line 477, f["rule"].replace("_", " ").title(), for every identifier
Titles == [rule \in RuleIds |-> Title(Replace(Chars(rule), "_", " "))]

\* line 477
Humanize(rule) == Titles[rule]

\* the fallback with findings[-5:] in place of findings[:5]
findings_to_recommendations_last_five(fs) ==
    LET top == LastN(fs, 5)
    IN  [i \in 1..Len(top) |->
            [title    |-> Humanize(top[i].rule),
             text     |-> top[i].message,
             severity |-> top[i].severity,
             metrics  |-> <<top[i].category>>]]

\* lines 473-483
findings_to_recommendations(fs) ==
    LET top == FirstN(fs, 5)
    IN  [i \in 1..Len(top) |->
            [title    |-> Humanize(top[i].rule),
             text     |-> top[i].message,
             severity |-> top[i].severity,
             metrics  |-> <<top[i].category>>]]

\* line 410 reached after the default key of lines 451-452 has been filled in:
\* the guard never finds the configuration empty
Unconfigured_after_default_key(e) == ~(e.api_key \/ TRUE) /\ ~e.base_url

\* line 410: neither a key nor an endpoint
Unconfigured(e) == ~e.api_key /\ ~e.base_url

\* lines 410-418: the call reaches client.messages.create
SendsRequest(e) == ~Unconfigured(e) /\ e.anthropic

\* A recommendation object as the model is asked to write it
LlmRec(k) ==
    [title |-> <<"T", "i", "p">>, text |-> [fmt |-> "advice {}", args |-> <<k>>],
     severity |-> "info", metrics |-> <<"sleep", "hrv">>]

\* a JSON number inside an array
JsonNumber(k) == [json_number |-> k]

\* What one request can come to.  kind: "raise" (messages.create raises:
\* transport, non-2xx, authentication), "no_content" (response.content is
\* empty, IndexError on line 460), "not_json" (json.loads raises), "json"
\* (json.loads returns a value whose top level is `top`).
Reply(kind, top, items) == [kind |-> kind, top |-> top, items |-> items]

Replies ==
    {Reply("raise", "none", <<>>),
     Reply("no_content", "none", <<>>),
     Reply("not_json", "none", <<>>),
     Reply("json", "object", <<>>),
     Reply("json", "array", <<>>),
     Reply("json", "array", [k \in 1..6 |-> LlmRec(k)]),
     Reply("json", "array", <<JsonNumber(1), LlmRec(2)>>)}

\* lines 467-468 answering a failed request with `return []`
llm_result_empty_on_error(reply, fs) ==
    IF reply.kind = "json" /\ reply.top = "array"
    THEN FirstN(reply.items, 5)
    ELSE IF reply.kind = "raise" THEN <<>>
    ELSE findings_to_recommendations(fs)

\* lines 445-470: what get_llm_recommendations returns once the request ended
llm_result(reply, fs) ==
    IF reply.kind = "json" /\ reply.top = "array"
    THEN FirstN(reply.items, 5)
    ELSE findings_to_recommendations(fs)

----------------------------------------------------------------------------
(* Recommendation cache and public API, recommendations.py lines 17-19 and  *)
(* 490-530.  A call runs without suspension between two awaits, so each    *)
(* action below is the code from one await to the next; "done" is the      *)
(* moment the return value is handed to the client.                        *)

CACHE_TTL == 6 * 3600

\* Python None where a str is expected, and where a list is expected
PyNone == [none |-> TRUE]

NoneList == <<PyNone>>

\* bool(x) of a list-or-None
NonEmpty(list) == list # NoneList /\ list # <<>>

\* one series as the numbers json.dumps writes: date, value, date, value, ...
DumpSeries(series) ==
    [j \in 1..(2 * Len(series)) |->
        IF j % 2 = 1 THEN series[(j + 1) \div 2].date ELSE series[j \div 2].value]

\* json.dumps(data, default=str): the metrics in insertion order (lines 40-51),
\* each key (written as its position) followed by its points in date order
RECURSIVE DumpFrom(_, _)
DumpFrom(ms, i) ==
    IF i > Len(Metrics) THEN <<>>
    ELSE <<i>> \o DumpSeries(ms[Metrics[i]]) \o DumpFrom(ms, i + 1)

JsonDumps(ms) == DumpFrom(ms, 1)

\* the modulus of the checksum
DigestModulus == 65521

\* hashlib.md5(text).hexdigest() is a fixed-size digest of the text; it is
\* modelled by a two-sum checksum of the text (the sum of its numbers and
\* their position-weighted sum)
Md5(text) ==
    [md5 |-> <<(1 + SumSeq(text)) % DigestModulus,
               SumSeq([i \in 1..Len(text) |-> (Len(text) - i + 1) * text[i]])
                   % DigestModulus>>]

\* line 497
DataHash(ms) == Md5(JsonDumps(ms))

Callers == {"c1", "c2"}

\* the callers that issue requests in the sequential specification
SeqCallers == {"c1"}

\* how many TTL periods the clock covers
MaxEpochs == 1

\* the instants at which the clock is read
StartTime == Day0 * 86400

TimePoints ==
    {StartTime} \cup
    {StartTime + k * CACHE_TTL + e : k \in 1..MaxEpochs, e \in {-1, 0}}

DayOf(t) == t \div 86400

\* the module-level state at import (line 18)
InitCache == [hash |-> PyNone, timestamp |-> 0, recommendations |-> NoneList]

\* the contents the store can have, and what lines 495/497 and 507/526 compute
\* from each of them (data_hash, and the findings on every day of the clock)
Stores ==
    {[BaseStore EXCEPT !["sleep_duration"] = MkSeries(a, Day0),
                       !["hrv"] = MkSeries(b, Day0)] :
        a \in SyncProfiles["sleep_duration"], b \in SyncProfiles["hrv"]}

StoreHash == [s \in Stores |-> DataHash(s)]

StoreFindings ==
    [s \in Stores |-> [d \in {DayOf(t) : t \in TimePoints} |-> run_rules(s, d)]]

NoRet == [returned |-> FALSE]

NoReply == Reply("none", "none", <<>>)

NoLast == [hash |-> PyNone, recommendations |-> NoneList, generated_at |-> 0]

\* line 500 with `<=` for the age test
Fresh_ttl_inclusive(slot, f, h, t) ==
    /\ ~f
    /\ slot.hash = h
    /\ (t - slot.timestamp) <= CACHE_TTL
    /\ NonEmpty(slot.recommendations)

\* line 500 with the age test turned round
Fresh_ttl_reversed(slot, f, h, t) ==
    /\ ~f
    /\ slot.hash = h
    /\ (t - slot.timestamp) > CACHE_TTL
    /\ NonEmpty(slot.recommendations)

\* line 500 without `not force`
Fresh_ignoring_force(slot, f, h, t) ==
    /\ slot.hash = h
    /\ (t - slot.timestamp) < CACHE_TTL
    /\ NonEmpty(slot.recommendations)

\* line 500
Fresh(slot, f, h, t) ==
    /\ ~f
    /\ slot.hash = h
    /\ (t - slot.timestamp) < CACHE_TTL
    /\ NonEmpty(slot.recommendations)

Observed(c, h, recommendations, t) ==
    IF force[c] THEN NoLast
    ELSE [hash |-> h, recommendations |-> recommendations, generated_at |-> t]

\* line 500 with force left aside
EntryFresh(c) ==
    [entry_fresh EXCEPT ![c] = Fresh(cache, FALSE, StoreHash[store], now)]

\* lines 510-520
StoreAndReturn(c, h, t, recommendations) ==
    /\ cache' = [hash |-> h, timestamp |-> t, recommendations |-> recommendations]
    /\ pc' = [pc EXCEPT ![c] = "done"]
    /\ ret' = [ret EXCEPT ![c] = [recommendations |-> recommendations,
                                  cached |-> FALSE, generated_at |-> t]]
    /\ last' = Observed(c, h, recommendations, t)

\* GET /api/recommendations reaches `await get_all_metrics` (line 494)
CallRecommendations(c, f) ==
    /\ pc[c] = "idle"
    /\ pc' = [pc EXCEPT ![c] = "fetch"]
    /\ force' = [force EXCEPT ![c] = f]
    /\ UNCHANGED <<store, now, cache, env, data_hash, findings, t_now, response,
                   requests, ret, entry_fresh, last, sync, input, output>>

\* lines 500-505 with the hit renewing the entry's timestamp
CacheHit_refreshing(c) ==
    /\ pc[c] = "fetch"
    /\ Fresh(cache, force[c], StoreHash[store], now)
    /\ data_hash' = [data_hash EXCEPT ![c] = StoreHash[store]]
    /\ t_now' = [t_now EXCEPT ![c] = now]
    /\ pc' = [pc EXCEPT ![c] = "done"]
    /\ cache' = [cache EXCEPT !.timestamp = now]
    /\ ret' = [ret EXCEPT ![c] = [recommendations |-> cache.recommendations,
                                  cached |-> TRUE,
                                  generated_at |-> cache.timestamp]]
    /\ entry_fresh' = EntryFresh(c)
    /\ last' = Observed(c, StoreHash[store], cache.recommendations, cache.timestamp)
    /\ UNCHANGED <<store, now, env, force, findings, response, requests,
                   sync, input, output>>

\* lines 494-505: the read returns, the entry is fresh, the call returns it
CacheHit(c) ==
    /\ pc[c] = "fetch"
    /\ Fresh(cache, force[c], StoreHash[store], now)
    /\ data_hash' = [data_hash EXCEPT ![c] = StoreHash[store]]
    /\ t_now' = [t_now EXCEPT ![c] = now]
    /\ pc' = [pc EXCEPT ![c] = "done"]
    /\ ret' = [ret EXCEPT ![c] = [recommendations |-> cache.recommendations,
                                  cached |-> TRUE,
                                  generated_at |-> cache.timestamp]]
    /\ entry_fresh' = EntryFresh(c)
    /\ last' = Observed(c, StoreHash[store], cache.recommendations, cache.timestamp)
    /\ UNCHANGED <<store, now, cache, env, force, findings, response, requests,
                   sync, input, output>>

\* lines 494-520 with 410-418: no fresh entry, the rules run, and
\* get_llm_recommendations returns the fallback without sending anything
MissNoRequest(c) ==
    /\ pc[c] = "fetch"
    /\ ~Fresh(cache, force[c], StoreHash[store], now)
    /\ ~SendsRequest(env)
    /\ data_hash' = [data_hash EXCEPT ![c] = StoreHash[store]]
    /\ t_now' = [t_now EXCEPT ![c] = now]
    /\ findings' = [findings EXCEPT ![c] = StoreFindings[store][DayOf(now)]]
    /\ StoreAndReturn(c, StoreHash[store], now,
                      findings_to_recommendations(StoreFindings[store][DayOf(now)]))
    /\ entry_fresh' = EntryFresh(c)
    /\ UNCHANGED <<store, now, env, force, response, requests, sync, input, output>>

\* lines 494-454: no fresh entry, the rules run, the request goes out
MissSend(c) ==
    /\ pc[c] = "fetch"
    /\ ~Fresh(cache, force[c], StoreHash[store], now)
    /\ SendsRequest(env)
    /\ pc' = [pc EXCEPT ![c] = "llm"]
    /\ data_hash' = [data_hash EXCEPT ![c] = StoreHash[store]]
    /\ t_now' = [t_now EXCEPT ![c] = now]
    /\ findings' = [findings EXCEPT ![c] = StoreFindings[store][DayOf(now)]]
    /\ requests' = [requests EXCEPT ![c] = requests[c] + 1]
    /\ entry_fresh' = EntryFresh(c)
    /\ UNCHANGED <<store, now, cache, env, force, response, ret, last, sync, input, output>>

\* lines 454-470 with one retry after an exception of messages.create
LlmReturn_with_retry(c, reply) ==
    /\ pc[c] = "llm"
    /\ IF reply.kind = "raise" /\ requests[c] < 2
       THEN /\ requests' = [requests EXCEPT ![c] = requests[c] + 1]
            /\ UNCHANGED <<store, now, cache, env, pc, force, data_hash, findings,
                           t_now, response, ret, entry_fresh, last, sync, input, output>>
       ELSE /\ response' = [response EXCEPT ![c] = reply]
            /\ cache' = [hash |-> data_hash[c], timestamp |-> t_now[c],
                         recommendations |-> llm_result(reply, findings[c])]
            /\ pc' = [pc EXCEPT ![c] = "done"]
            /\ ret' = [ret EXCEPT ![c] =
                          [recommendations |-> llm_result(reply, findings[c]),
                           cached |-> FALSE, generated_at |-> t_now[c]]]
            /\ last' = IF force[c] THEN [hash |-> PyNone, recommendations |-> NoneList,
                                         generated_at |-> 0]
                       ELSE [hash |-> data_hash[c],
                             recommendations |-> llm_result(reply, findings[c]),
                             generated_at |-> t_now[c]]
            /\ UNCHANGED <<store, now, env, force, data_hash, findings, t_now,
                           requests, entry_fresh, sync, input, output>>

\* lines 510-520 storing the hash of the data as it is when the request ends,
\* not the hash computed at line 497
LlmReturn_hash_at_return(c, reply) ==
    /\ pc[c] = "llm"
    /\ response' = [response EXCEPT ![c] = reply]
    /\ StoreAndReturn(c, StoreHash[store], t_now[c], llm_result(reply, findings[c]))
    /\ UNCHANGED <<store, now, env, force, data_hash, findings, t_now, requests,
                   entry_fresh, sync, input, output>>

\* lines 454-470 and 510-520: the request ends, in a response or an exception
LlmReturn(c, reply) ==
    /\ pc[c] = "llm"
    /\ response' = [response EXCEPT ![c] = reply]
    /\ StoreAndReturn(c, data_hash[c], t_now[c], llm_result(reply, findings[c]))
    /\ UNCHANGED <<store, now, env, force, data_hash, findings, t_now, requests,
                   entry_fresh, sync, input, output>>

\* GET /api/recommendations/rules-only reaches `await get_all_metrics` (line 525)
CallRulesOnly(c) ==
    /\ pc[c] = "idle"
    /\ pc' = [pc EXCEPT ![c] = "rules_fetch"]
    /\ UNCHANGED <<store, now, cache, env, force, data_hash, findings, t_now,
                   response, requests, ret, entry_fresh, last, sync, input, output>>

\* lines 525-530 storing a rendering of the findings in the slot
RulesOnlyReturn_caching(c) ==
    /\ pc[c] = "rules_fetch"
    /\ pc' = [pc EXCEPT ![c] = "done"]
    /\ LET fs == StoreFindings[store][DayOf(now)]
       IN  /\ ret' = [ret EXCEPT ![c] = [findings |-> fs, count |-> Len(fs)]]
           /\ cache' = [hash |-> StoreHash[store], timestamp |-> now,
                        recommendations |-> findings_to_recommendations(fs)]
    /\ UNCHANGED <<store, now, env, force, data_hash, findings, t_now,
                   response, requests, entry_fresh, last, sync, input, output>>

\* lines 525-530
RulesOnlyReturn(c) ==
    /\ pc[c] = "rules_fetch"
    /\ pc' = [pc EXCEPT ![c] = "done"]
    /\ LET fs == StoreFindings[store][DayOf(now)]
       IN  ret' = [ret EXCEPT ![c] = [findings |-> fs, count |-> Len(fs)]]
    /\ UNCHANGED <<store, now, cache, env, force, data_hash, findings, t_now,
                   response, requests, entry_fresh, last, sync, input, output>>

IsRecommendations(value) == "cached" \in DOMAIN value

\* the client has its response and the call's frame is gone; the caller may
\* issue the next request
Ack(c) ==
    /\ pc[c] = "done"
    /\ pc' = [pc EXCEPT ![c] = "idle"]
    /\ entry_fresh' = [entry_fresh EXCEPT ![c] = FALSE]
    /\ ret' = [ret EXCEPT ![c] = NoRet]
    /\ force' = [force EXCEPT ![c] = FALSE]
    /\ data_hash' = [data_hash EXCEPT ![c] = PyNone]
    /\ findings' = [findings EXCEPT ![c] = <<>>]
    /\ t_now' = [t_now EXCEPT ![c] = 0]
    /\ response' = [response EXCEPT ![c] = NoReply]
    /\ requests' = [requests EXCEPT ![c] = 0]
    /\ UNCHANGED <<store, now, cache, env, last, sync, input, output>>

\* "done" is the instant of a return, not a place where a call waits: the
\* store and the clock move only between the atomic segments of the calls
Settled == \A c \in Callers : pc[c] # "done"

\* sync.py upsert (lines 29-44): a sync pass rewrites the rows of one metric
Upsert(m, vals) ==
    /\ Settled
    /\ store[m] # MkSeries(vals, Day0)
    /\ store' = [store EXCEPT ![m] = MkSeries(vals, Day0)]
    /\ UNCHANGED <<now, cache, env, pc, force, data_hash, findings, t_now, response,
                   requests, ret, entry_fresh, last, sync, input, output>>

\* time passes
Tick(t) ==
    /\ Settled
    /\ t > now
    /\ now' = t
    /\ UNCHANGED <<store, cache, env, pc, force, data_hash, findings, t_now,
                   response, requests, ret, entry_fresh, last, sync, input, output>>

NoInput == [ms |-> EmptyMetricSet, today |-> Day0]

\* the POST /api/sync requests
Triggers == {"t1", "t2"}

\* scheduled passes the model counts (the count stays at this bound afterwards)
MaxPasses == 2

\* _sync_lock free, no _do_sync task, scheduled_sync created by lifespan
InitSync ==
    [lock |-> FALSE,
     task |-> [r \in Triggers |-> "none"],
     reply |-> [r \in Triggers |-> "none"],
     sched |-> "created",
     outcome |-> "none",
     passes |-> 0]

NoOutput == [stage |-> "input", findings |-> <<>>, recommendations |-> <<>>]

\* the module as imported, before any request
InitPipeline ==
    /\ store = BaseStore
    /\ now = StartTime
    /\ cache = InitCache
    /\ pc = [c \in Callers |-> "idle"]
    /\ force = [c \in Callers |-> FALSE]
    /\ data_hash = [c \in Callers |-> PyNone]
    /\ findings = [c \in Callers |-> <<>>]
    /\ t_now = [c \in Callers |-> 0]
    /\ response = [c \in Callers |-> NoReply]
    /\ requests = [c \in Callers |-> 0]
    /\ ret = [c \in Callers |-> NoRet]
    /\ entry_fresh = [c \in Callers |-> FALSE]
    /\ last = NoLast
    /\ sync = InitSync

Init ==
    /\ InitPipeline
    /\ env \in [api_key : BOOLEAN, base_url : BOOLEAN, anthropic : BOOLEAN]
    /\ input = NoInput
    /\ output = NoOutput

CallerStep(c) ==
    \/ \E f \in BOOLEAN : CallRecommendations(c, f)
    \/ CacheHit(c)
    \/ MissNoRequest(c)
    \/ MissSend(c)
    \/ \E reply \in Replies : LlmReturn(c, reply)
    \/ CallRulesOnly(c)
    \/ RulesOnlyReturn(c)
    \/ Ack(c)

Next ==
    \/ \E c \in SeqCallers : CallerStep(c)
    \/ \E m \in SyncedMetrics : \E vals \in SyncProfiles[m] : Upsert(m, vals)
    \/ \E t \in TimePoints : Tick(t)

Spec == Init /\ [][Next]_vars

----------------------------------------------------------------------------
(* The rules engine and the fallback rendering as pure functions: every     *)
(* combination of the series in Profiles, seen on the day of the last point *)
(* and a week later.                                                        *)

ProfileChoices ==
    [sleep_duration : Profiles["sleep_duration"], sleep_score : Profiles["sleep_score"],
     resting_hr : Profiles["resting_hr"], hrv : Profiles["hrv"],
     body_battery : Profiles["body_battery"], stress : Profiles["stress"],
     vo2max : Profiles["vo2max"], weight : Profiles["weight"],
     training_load : Profiles["training_load"], steps : Profiles["steps"]]

InitRules ==
    /\ InitPipeline
    /\ env = [api_key |-> FALSE, base_url |-> FALSE, anthropic |-> FALSE]
    /\ input \in {[ms |-> [m \in MetricNames |-> MkSeries(p[m], Day0)], today |-> d] :
                  p \in ProfileChoices, d \in {Day0, Day0 + 7}}
    /\ output = NoOutput

\* run_rules(data)
ApplyRules ==
    /\ output.stage = "input"
    /\ output' = [stage |-> IF run_rules_raises(input.ms, input.today)
                            THEN "raised" ELSE "findings",
                  findings |-> run_rules(input.ms, input.today),
                  recommendations |-> <<>>]
    /\ UNCHANGED <<store, now, cache, env, pc, force, data_hash, findings, t_now,
                   response, requests, ret, entry_fresh, last, sync, input>>

\* _findings_to_recommendations(findings)
ApplyFallback ==
    /\ output.stage = "findings"
    /\ output' = [output EXCEPT !.stage = "recommendations",
                                !.recommendations =
                                    findings_to_recommendations(output.findings)]
    /\ UNCHANGED <<store, now, cache, env, pc, force, data_hash, findings, t_now,
                   response, requests, ret, entry_fresh, last, sync, input>>

NextRules == ApplyRules \/ ApplyFallback

SpecRules == InitRules /\ [][NextRules]_vars

----------------------------------------------------------------------------
(* Concurrent requests: every caller of Callers runs get_recommendations,   *)
(* suspended at the store read and at the model call, while a sync writes   *)
(* the store.  The model request is configured or not; when it is, it ends  *)
(* in an exception or in an array of recommendation objects.                *)

ConcEnvs ==
    {[api_key |-> k, base_url |-> FALSE, anthropic |-> TRUE] : k \in BOOLEAN}

ConcReplies == {r \in Replies : r.kind = "raise" \/ Len(r.items) > 5}

\* the clock of the concurrent runs: within the TTL of an entry, and past it
ConcTimes == {StartTime, StartTime + CACHE_TTL}

InitConc ==
    /\ InitPipeline
    /\ env \in ConcEnvs
    /\ input = NoInput
    /\ output = NoOutput

ConcStep(c) ==
    \/ \E f \in BOOLEAN : CallRecommendations(c, f)
    \/ CacheHit(c)
    \/ MissNoRequest(c)
    \/ MissSend(c)
    \/ \E reply \in ConcReplies : LlmReturn(c, reply)
    \/ Ack(c)

NextConc ==
    \/ \E c \in Callers : ConcStep(c)
    \/ \E m \in SyncedMetrics : \E vals \in SyncProfiles[m] : Upsert(m, vals)
    \/ \E t \in ConcTimes : Tick(t)

SpecConc == InitConc /\ [][NextConc]_vars

----------------------------------------------------------------------------
(* Ingestion: POST /api/sync (app.py lines 81-92) and the background        *)
(* scheduler (sync.py lines 302-317, started by lifespan, app.py line 57).  *)
(* run_sync awaits the database and so runs over several steps of the event *)
(* loop; a pass is executing from its first step to its return.             *)

\* the run_sync calls in progress: _do_sync tasks inside the lock, and the
\* scheduler inside its backfill or a periodic pass
Executing ==
    {r \in Triggers : sync.task[r] = "running"}
    \cup (IF sync.sched \in {"backfill", "periodic"} THEN {"scheduled_sync"} ELSE {})

SyncStep(next) ==
    /\ sync' = next
    /\ UNCHANGED <<store, now, cache, env, pc, force, data_hash, findings, t_now,
                   response, requests, ret, entry_fresh, last, input, output>>

\* trigger_sync: refuse when the lock is held, else create the _do_sync task.
\* Requests are served after lifespan's startup, and the scheduler task it
\* created takes its first step before any task created later.
TriggerSync(r) ==
    /\ sync.sched # "created"
    /\ sync.task[r] \in {"none", "done"}
    /\ IF sync.lock
       THEN SyncStep([sync EXCEPT !.reply[r] = "already_running"])
       ELSE SyncStep([sync EXCEPT !.reply[r] = "started", !.task[r] = "created"])

\* _do_sync: async with _sync_lock, entered when the lock is free
DoSyncAcquire(r) ==
    /\ sync.task[r] = "created"
    /\ ~sync.lock
    /\ SyncStep([sync EXCEPT !.lock = TRUE, !.task[r] = "running"])

\* _do_sync: run_sync returned (or raised), the lock is released
DoSyncRelease(r) ==
    /\ sync.task[r] = "running"
    /\ SyncStep([sync EXCEPT !.lock = FALSE, !.task[r] = "done"])

\* scheduled_sync: the task starts with run_sync(days=90)
ScheduledBackfill ==
    /\ sync.sched = "created"
    /\ SyncStep([sync EXCEPT !.sched = "backfill"])

\* how a run_sync call ends: it returns its result, or an exception leaves it
\* (authenticate at line 244, the database calls at 257 and 288-296)
Outcomes == {"returned", "raised"}

\* scheduled_sync without the try/except around run_sync: an exception ends
\* the task
ScheduledSleep_uncaught(outcome) ==
    /\ sync.sched \in {"backfill", "periodic"}
    /\ SyncStep([sync EXCEPT !.sched = IF outcome = "raised" THEN "stopped"
                                       ELSE "sleeping",
                             !.outcome = outcome,
                             !.passes = Min(@ + 1, MaxPasses)])

\* scheduled_sync: run_sync returned, or raised and the exception was caught
\* and logged; asyncio.sleep begins
ScheduledSleep(outcome) ==
    /\ sync.sched \in {"backfill", "periodic"}
    /\ SyncStep([sync EXCEPT !.sched = "sleeping",
                             !.outcome = outcome,
                             !.passes = Min(@ + 1, MaxPasses)])

\* scheduled_sync: the sleep is over, run_sync(days=3)
ScheduledWake ==
    /\ sync.sched = "sleeping"
    /\ SyncStep([sync EXCEPT !.sched = "periodic"])

\* a run_sync in progress writes rows of one table
RunSyncUpsert ==
    /\ Executing # {}
    /\ \E m \in SyncedMetrics : \E vals \in SyncProfiles[m] : Upsert(m, vals)

InitIngestion ==
    /\ InitPipeline
    /\ env = [api_key |-> FALSE, base_url |-> FALSE, anthropic |-> FALSE]
    /\ input = NoInput
    /\ output = NoOutput

NextSync ==
    \/ \E r \in Triggers : TriggerSync(r)
    \/ \E r \in Triggers : DoSyncAcquire(r)
    \/ \E r \in Triggers : DoSyncRelease(r)
    \/ ScheduledBackfill
    \/ \E outcome \in Outcomes : ScheduledSleep(outcome)
    \/ ScheduledWake
    \/ RunSyncUpsert

SpecSync == InitIngestion /\ [][NextSync]_vars

\* the scheduler's task is run by the event loop, its run_sync calls end and
\* its asyncio.sleep timers expire
SpecSyncLive ==
    /\ SpecSync
    /\ WF_vars(ScheduledBackfill)
    /\ WF_vars(\E outcome \in Outcomes : ScheduledSleep(outcome))
    /\ WF_vars(ScheduledWake)

----------------------------------------------------------------------------
(* run_rules on sparse MetricSets: one metric alone (sleep, HRV, steps) in  *)
(* every short shape around its detector's thresholds, and MetricSets in    *)
(* which any subset of the metrics is absent, empty or just too short.      *)

\* most points at or above 7 h before the trailing run of short nights
MaxPrefix == 5

\* longest trailing run of short nights; the low_duration window holds 7
MaxRun == 8

\* longest enumerated HRV series; the below-baseline window holds 10
MaxHrvLen == 10

\* longest enumerated steps series; the weekly average takes 7
MaxStepsLen == 8

SeqsBetween(S, lo, hi) == UNION {[1..k -> S] : k \in lo..hi}

MetricIndex(m) == CHOOSE i \in 1..Len(Metrics) : Metrics[i] = m

\* one point fewer than the detector needs, with values that would trigger it
Short ==
    [sleep_duration |-> Const(2, 20000),
     sleep_score    |-> Const(2, 60),
     resting_hr     |-> <<50, 50, 50, 50, 50, 70>>,
     hrv            |-> <<50, 50, 50, 30, 30, 30>>,
     body_battery   |-> Const(2, 50),
     stress         |-> Const(2, 80),
     vo2max         |-> Linear(13, 500, -1),
     weight         |-> Const(6, 80000) \o Const(7, 82000),
     training_load  |-> Const(6, 100) \o Const(7, 200),
     steps          |-> Const(6, 5000)]

\* enough points, with values that trigger the detector
Full ==
    [sleep_duration |-> Const(3, 20000),
     sleep_score    |-> Const(3, 60),
     resting_hr     |-> Const(10, 50) \o <<55, 60, 65, 70>>,
     hrv            |-> Linear(14, 66, -2),
     body_battery   |-> <<85, 70, 75, 79>>,
     stress         |-> Linear(14, 40, 2),
     vo2max         |-> Linear(14, 500, -1),
     weight         |-> Const(7, 80000) \o Const(7, 81000),
     training_load  |-> Const(7, 100) \o Const(7, 200),
     steps          |-> Const(7, 5000)]

\* how a metric outside the supplied subset looks under each pattern
Lack(pattern, m) ==
    IF pattern = "mixed"
    THEN <<"absent", "short", "empty">>[(MetricIndex(m) % 3) + 1]
    ELSE pattern

\* the metrics of T hold their full series, every other one is absent, empty
\* or short
Sparse(T, pattern) ==
    [m \in {x \in MetricNames : x \in T \/ Lack(pattern, x) # "absent"} |->
        IF m \in T THEN MkSeries(Full[m], Day0)
        ELSE IF Lack(pattern, m) = "short" THEN MkSeries(Short[m], Day0)
        ELSE <<>>]

SparseInputs ==
    {[family |-> "sleep", today |-> Day0,
      ms |-> [sleep_duration |-> MkSeries(Const(p, hi) \o Const(k, lo), Day0)]] :
        hi \in {25200, 28800}, lo \in {23400, 25199},
        p \in 0..MaxPrefix, k \in 0..MaxRun}
    \cup
    {[family |-> "hrv", today |-> Day0, ms |-> [hrv |-> MkSeries(v, Day0)]] :
        v \in SeqsBetween({30, 50}, 6, MaxHrvLen)
              \cup {Const(p, 50) \o Const(7, 30) : p \in {13, 20, 23}}
              \cup {Const(7, 0)}}
    \cup
    {[family |-> "steps", today |-> Day0, ms |-> [steps |-> MkSeries(v, Day0)]] :
        v \in SeqsBetween({0, 8000}, 5, MaxStepsLen)
              \cup {Const(7, 7000), Const(7, 6999), Const(6, 5000)}}
    \cup
    {[family |-> "lacking", today |-> Day0, ms |-> Sparse(T, pattern)] :
        T \in SUBSET MetricNames,
        pattern \in {"absent", "empty", "short", "mixed"}}
    \cup
    {[family |-> "lacking", today |-> Day0 + 7,
      ms |-> [weight |-> MkSeries(Const(20, 80000), Day0),
              training_load |-> MkSeries(tl, Day0)]] :
        tl \in {Const(7, 100), Const(6, 100)}}

InitSparse ==
    /\ InitPipeline
    /\ env = [api_key |-> FALSE, base_url |-> FALSE, anthropic |-> FALSE]
    /\ input \in SparseInputs
    /\ output = NoOutput

SpecSparse == InitSparse /\ [][NextRules]_vars

----------------------------------------------------------------------------
(* run_rules on combined signals: sleep, resting HR, HRV and training load  *)
(* on either side of the correlation detectors' conditions, and weight      *)
(* with training load on either side of the plateau detector's.             *)

CombinedProfiles ==
    [sleep_duration |-> {<<>>, Const(2, 18000), Const(3, 18000), Const(3, 21600),
                         <<40000, 18000, 18000, 18000>>, Const(3, 25000)},
     resting_hr     |-> {<<>>, Const(6, 50) \o <<60>>, Const(7, 50), <<19, 21>>},
     hrv            |-> {<<>>, <<30>>, <<50, 50, 50, 30, 30, 30>>, Const(4, 50),
                         Linear(7, 60, -2), <<60, 60, 60, 60, 40, 35, 30>>,
                         Linear(7, 30, 5) \o Linear(7, 65, -2)},
     training_load  |-> {<<>>, Const(7, 100) \o Const(7, 200), Const(14, 100),
                         Const(3, 0) \o Const(3, 300), Const(7, 0),
                         Const(5, 100) \o Const(7, 120)},
     weight         |-> {<<>>, Const(21, 80000), Const(20, 80000),
                         Const(7, 80000) \o Const(7, 85000) \o Const(7, 80100),
                         Const(7, 80000) \o Const(14, 80227),
                         Const(7, 80000) \o Const(14, 80226),
                         Const(7, 85000) \o Const(14, 80000),
                         <<99999>> \o Const(21, 80000)}]

CombinedInputs ==
    {[family |-> "combined", today |-> Day0,
      ms |-> [sleep_duration |-> MkSeries(a, Day0), resting_hr |-> MkSeries(b, Day0),
              hrv |-> MkSeries(c, Day0), training_load |-> MkSeries(d, Day0),
              weight |-> MkSeries(e, Day0)]] :
        a \in CombinedProfiles["sleep_duration"], b \in CombinedProfiles["resting_hr"],
        c \in CombinedProfiles["hrv"], d \in CombinedProfiles["training_load"],
        e \in CombinedProfiles["weight"]}

InitCombined ==
    /\ InitPipeline
    /\ env = [api_key |-> FALSE, base_url |-> FALSE, anthropic |-> FALSE]
    /\ input \in CombinedInputs
    /\ output = NoOutput

SpecCombined == InitCombined /\ [][NextRules]_vars

----------------------------------------------------------------------------
(* The statistical primitives as pure functions: avg on lists with and      *)
(* without nulls, trend_slope and consecutive_below / consecutive_above on  *)
(* every short series over three values around the threshold, and           *)
(* trend_slope on perfectly linear series, dense and with calendar gaps.    *)

\* longest enumerated series and list
MaxLen == 4

\* largest window of the enumerated series; it exceeds MaxLen so that a window
\* can be longer than the series
MaxWindow == 5

\* the sequences over S of length 0..n
SeqsUpTo(S, n) == UNION {[1..k -> S] : k \in 0..n}

\* rows `gap` days apart, the last one on Day0
Dated(vals, gap) ==
    [i \in 1..Len(vals) |-> [date |-> Day0 - gap * (Len(vals) - i), value |-> vals[i]]]

PrimitiveInputs ==
    {[kind |-> "values", values |-> v] : v \in SeqsUpTo({NULL, 0, 3}, MaxLen - 1)}
    \cup
    {[kind |-> "series", series |-> Dated(v, 1), threshold |-> th, window |-> w] :
        v \in SeqsUpTo({0, 1, 2}, MaxLen),
        th \in {Int2Rat(1), Rat(3, 2)},
        w \in (0..MaxWindow) \cup {7}}
    \cup
    {[kind |-> "linear", a |-> a, b |-> b, n |-> n, prefix |-> p, gap |-> gap,
      series |-> Dated(Const(p, 999) \o Linear(n, a, b), gap),
      threshold |-> Int2Rat(a), window |-> w] :
        a \in {-7, 0, 80000}, b \in {-300, -1, 0, 2}, n \in {3, 4, 14, 16},
        p \in {0, 2}, gap \in {1, 3}, w \in {3, 5, 14, 20}}

InitPrimitives ==
    /\ InitPipeline
    /\ env = [api_key |-> FALSE, base_url |-> FALSE, anthropic |-> FALSE]
    /\ input \in PrimitiveInputs
    /\ output = NoOutput

Applied(operation, result) ==
    /\ output.stage = "input"
    /\ output' = [stage |-> operation, result |-> result]
    /\ UNCHANGED <<store, now, cache, env, pc, force, data_hash, findings, t_now,
                   response, requests, ret, entry_fresh, last, sync, input>>

\* avg(values)
ApplyAvg ==
    /\ input.kind = "values"
    /\ Applied("avg", avg(input.values))

\* trend_slope(data, n)
ApplyTrendSlope ==
    /\ input.kind \in {"series", "linear"}
    /\ Applied("trend_slope", trend_slope(input.series, input.window))

\* consecutive_below(data, threshold, from_end)
ApplyConsecutiveBelow ==
    /\ input.kind \in {"series", "linear"}
    /\ Applied("consecutive_below",
               consecutive_below(input.series, input.threshold, input.window))

\* consecutive_above(data, threshold, from_end)
ApplyConsecutiveAbove ==
    /\ input.kind \in {"series", "linear"}
    /\ Applied("consecutive_above",
               consecutive_above(input.series, input.threshold, input.window))

NextPrimitives ==
    \/ ApplyAvg
    \/ ApplyTrendSlope
    \/ ApplyConsecutiveBelow
    \/ ApplyConsecutiveAbove

SpecPrimitives == InitPrimitives /\ [][NextPrimitives]_vars

----------------------------------------------------------------------------
(* The wearable client's pull operations, sync_date, sync_weight_history    *)
(* and run_sync.  A payload is None (PyNone), the empty dict                *)
(* [empty |-> TRUE], or a record of the keys sync_date reads, with NULL for *)
(* an absent key or a null value.  A session is the module global _client   *)
(* (present or not) and what a login would do; a reply is what the library  *)
(* call of one pull does: it raises, or it returns a payload.               *)

\* a or b, on int-or-None
Or(a, b) == IF a \notin {NULL, 0} THEN a ELSE b

\* a pull whose except clause is missing
Pull_propagating(session, reply) ==
    IF (~session._client /\ session.login = "raises") \/ reply.kind = "raises"
    THEN [raised |-> TRUE, value |-> PyNone]
    ELSE [raised |-> FALSE, value |-> reply.payload]

\* get_sleep_data, get_user_summary, get_hrv_data, get_body_battery,
\* get_stress_data, get_weight_range, get_training_status:
\*     try: return get_client().get_X(date)  except Exception: return None
\* get_client() authenticates only when there is no client yet, and
\* authenticate() raises when both logins fail
Pull(session, reply) ==
    LET get_client_raises == ~session._client /\ session.login = "raises"
    IN  IF get_client_raises \/ reply.kind = "raises"
        THEN [raised |-> FALSE, value |-> PyNone]
        ELSE [raised |-> FALSE, value |-> reply.payload]

\* the fallback without the test of line 194
LegacyFallback_always(training) ==
    LET acute == Or(training.acuteLoad, training.aggregatedAcuteLoad)
    IN  IF acute # NULL
        THEN <<[table |-> "training_load",
                columns |-> [acute_load |-> acute,
                             chronic_load |-> Or(training.chronicLoad,
                                                 training.aggregatedChronicLoad)]]>>
        ELSE <<>>

\* lines 193-203: the legacy fields, used when bool(load_balance) is false.
\* mostRecentTrainingLoadBalance is [type, keys, map]: type "None" when
\* absent, "str" for a non-dict, "dict" with the keys it holds
LegacyFallback(training) ==
    LET load_balance == training.mostRecentTrainingLoadBalance
        acute == Or(training.acuteLoad, training.aggregatedAcuteLoad)
    IN  IF ~(load_balance.type = "str"
                 \/ (load_balance.type = "dict" /\ load_balance.keys # {}))
              /\ acute # NULL
        THEN <<[table |-> "training_load",
                columns |-> [acute_load |-> acute,
                             chronic_load |-> Or(training.chronicLoad,
                                                 training.aggregatedChronicLoad)]]>>
        ELSE <<>>

\* the upserts of one block of sync_date, from the payload its pull returned:
\* one [table, columns] per INSERT OR REPLACE.  The body battery payload is
\* the list's first entry, its values array the sequence of item[1];
\* metricsTrainingLoadBalanceDTOMap is the sequence of its values, loads are
\* whole numbers
RowsFor(group, payload) ==
    LET Stored(table, columns) == <<[table |-> table, columns |-> columns]>>
    IN  IF payload = PyNone \/ payload = [empty |-> TRUE]
        THEN <<>>
        ELSE CASE group = "sleep" ->
                 \* lines 62-78, _extract_sleep_score lines 47-56
                 IF payload.sleepTimeSeconds \notin {NULL, 0}
                 THEN Stored("sleep",
                          [duration_seconds |-> payload.sleepTimeSeconds,
                           sleep_score |->
                               IF payload.sleepScoresOverall # NULL
                               THEN payload.sleepScoresOverall
                               ELSE Or(payload.overallSleepScoreValue, NULL)])
                 ELSE <<>>
          [] group = "summary" ->
                 \* lines 80-93
                 (IF payload.restingHeartRate \notin {NULL, 0}
                  THEN Stored("resting_hr", [value |-> payload.restingHeartRate])
                  ELSE <<>>)
                 \o (IF payload.totalSteps # NULL
                     THEN Stored("steps", [value |-> payload.totalSteps])
                     ELSE <<>>)
                 \o (IF payload.activeKilocalories # NULL
                     THEN Stored("active_calories",
                              [value |-> payload.activeKilocalories])
                     ELSE <<>>)
          [] group = "hrv" ->
                 \* lines 95-108
                 IF payload.lastNightAvg \notin {NULL, 0}
                 THEN Stored("hrv", [last_night_avg |-> payload.lastNightAvg,
                                     weekly_avg |-> payload.weeklyAvg])
                 ELSE <<>>
          [] group = "body_battery" ->
                 \* lines 110-138
                 LET bb_levels == {payload.bodyBatteryValuesArray[i] :
                                      i \in DOMAIN payload.bodyBatteryValuesArray}
                                      \ {NULL}
                     highest == IF bb_levels # {}
                                THEN CHOOSE m \in bb_levels :
                                         \A x \in bb_levels : x <= m
                                ELSE payload.bodyBatteryHighestValue
                     lowest == IF bb_levels # {}
                               THEN CHOOSE m \in bb_levels :
                                        \A x \in bb_levels : m <= x
                               ELSE payload.bodyBatteryLowestValue
                 IN  IF highest # NULL
                     THEN Stored("body_battery",
                              [highest |-> highest, lowest |-> lowest])
                     ELSE <<>>
          [] group = "stress" ->
                 \* lines 140-154
                 LET avg_stress == Or(payload.avgStressLevel,
                                      payload.overallStressLevel)
                 IN  IF avg_stress # NULL
                     THEN Stored("stress", [avg_level |-> avg_stress,
                                            max_level |-> payload.maxStressLevel])
                     ELSE <<>>
          [] group = "training" ->
                 \* lines 156-203
                 LET load_balance == payload.mostRecentTrainingLoadBalance
                     load_map ==
                         IF "metricsTrainingLoadBalanceDTOMap" \in load_balance.keys
                         THEN load_balance.map
                         ELSE <<>>
                     \* the device the loop of line 178 stops at
                     devices == {i \in DOMAIN load_map : load_map[i].isdict}
                     total(device_data) ==
                         Or(device_data.monthlyLoadAerobicLow, 0)
                             + Or(device_data.monthlyLoadAerobicHigh, 0)
                             + Or(device_data.monthlyLoadAnaerobic, 0)
                 IN  (IF payload.vo2MaxValue \notin {NULL, 0}
                      THEN Stored("vo2max", [vo2max_value |-> payload.vo2MaxValue])
                      ELSE <<>>)
                     \o (IF load_balance.type = "dict" /\ devices # {}
                         THEN LET first == CHOOSE i \in devices :
                                               \A j \in devices : i <= j
                              IN  IF total(load_map[first]) > 0
                                  THEN Stored("training_load",
                                           [acute_load |-> total(load_map[first]),
                                            chronic_load |-> NULL])
                                  ELSE <<>>
                         ELSE <<>>)
                     \o LegacyFallback(payload)

\* the metric blocks of sync_date, in the order it pulls them
Groups == <<"sleep", "summary", "hrv", "body_battery", "stress", "training">>

\* sync_date(date_str) from its k-th block on, rows being what it has stored
\* so far (the whole call is k = 1, rows = <<>>); an exception of a pull or
\* of upsert (db = "fails") ends it
RECURSIVE sync_date(_, _, _, _, _)
sync_date(k, rows, session, replies, db) ==
    IF k > Len(Groups)
    THEN [raised |-> FALSE, rows |-> rows]
    ELSE LET pulled == Pull(session, replies[Groups[k]])
             new == IF pulled.raised THEN <<>>
                    ELSE RowsFor(Groups[k], pulled.value)
         IN  IF pulled.raised \/ (new # <<>> /\ db = "fails")
             THEN [raised |-> TRUE, rows |-> rows]
             ELSE sync_date(k + 1, rows \o new, session, replies, db)

\* sync_weight_history(start_date, end_date)
sync_weight_history(session, reply, db) ==
    LET pulled == Pull(session, reply)
        data == pulled.value
        weights == IF pulled.raised \/ data = PyNone \/ data = [empty |-> TRUE]
                   THEN <<>>
                   ELSE SelectSeq(data.dailyWeightSummaries,
                            LAMBDA entry : /\ entry.summaryDate \notin {NULL, 0}
                                           /\ entry.weight \notin {NULL, 0})
        new == [i \in DOMAIN weights |->
                    [table |-> "weight_history",
                     columns |-> [date |-> weights[i].summaryDate,
                                  weight_grams |-> weights[i].weight]]]
    IN  IF pulled.raised \/ (new # <<>> /\ db = "fails")
        THEN [raised |-> TRUE, rows |-> <<>>]
        ELSE [raised |-> FALSE, rows |-> new]

\* the test of lines 263-266 without the exemption of today
Skipped_today_too(date_str, today, existing) ==
    \A t \in DOMAIN existing : date_str \in existing[t]

\* lines 263-266: the date is passed over; existing is the dict of lines
\* 255-257, one set of dates per table
Skipped(date_str, today, existing) ==
    /\ date_str # today
    /\ \A t \in DOMAIN existing : date_str \in existing[t]

\* the loop of line 261 with an exception of sync_date ending it
RECURSIVE SyncLoop_aborting(_, _, _, _, _)
SyncLoop_aborting(dates, today, existing, outcome, acc) ==
    IF dates = <<>>
    THEN acc
    ELSE LET date_str == Head(dates)
         IN  IF Skipped(date_str, today, existing)
             THEN SyncLoop_aborting(Tail(dates), today, existing, outcome, acc)
             ELSE IF outcome[date_str].raised
                  THEN [visited |-> Append(acc.visited, date_str),
                        errors |-> acc.errors + 1]
                  ELSE SyncLoop_aborting(Tail(dates), today, existing, outcome,
                           [acc EXCEPT !.visited = Append(@, date_str)])

\* lines 261-272: the dates sync_date is called for, in order, and how many of
\* the calls raised
RECURSIVE SyncLoop(_, _, _, _, _)
SyncLoop(dates, today, existing, outcome, acc) ==
    IF dates = <<>>
    THEN acc
    ELSE LET date_str == Head(dates)
         IN  IF Skipped(date_str, today, existing)
             THEN SyncLoop(Tail(dates), today, existing, outcome, acc)
             ELSE SyncLoop(Tail(dates), today, existing, outcome,
                      [visited |-> Append(acc.visited, date_str),
                       errors |-> acc.errors
                                     + (IF outcome[date_str].raised THEN 1 ELSE 0)])

\* run_sync(days): db_tables are the metric tables when it starts (what
\* get_synced_dates returns for each), work[d] what the client returns and
\* the database does for date d, weight the same for the weight range,
\* status_db what the database does with the final write of lines 289-297
run_sync(days, today, session, db_tables, work, weight, status_db) ==
    LET result(errors) ==
            IF errors # 0
            THEN [text |-> "completed with {errors} errors", errors |-> errors]
            ELSE [text |-> "success", errors |-> 0]
    IN  IF session.login = "raises"
        THEN [raised |-> TRUE, visited |-> <<>>, stored |-> {},
              weight_range |-> <<>>, errors |-> 0, status |-> <<>>,
              result |-> result(0)]
        ELSE LET client == [session EXCEPT !._client = TRUE]
                 dates == [i \in 1 .. days |-> today - (i - 1)]
                 tables == {"sleep", "resting_hr", "hrv", "body_battery",
                            "stress", "vo2max", "training_load", "steps",
                            "active_calories"}
                 existing == [t \in tables |-> db_tables[t]]
                 outcome == [d \in {dates[i] : i \in DOMAIN dates} |->
                                 sync_date(1, <<>>, client, work[d].replies,
                                           work[d].db)]
                 loop == SyncLoop(dates, today, existing, outcome,
                                  [visited |-> <<>>, errors |-> 0])
                 weighed == sync_weight_history(client, weight.reply, weight.db)
                 errors == loop.errors + (IF weighed.raised THEN 1 ELSE 0)
             IN  [raised |-> status_db = "fails",
                  visited |-> loop.visited,
                  stored |-> UNION {{<<loop.visited[i],
                                       outcome[loop.visited[i]].rows[j].table>> :
                                         j \in DOMAIN outcome[loop.visited[i]].rows} :
                                      i \in DOMAIN loop.visited},
                  weight_range |-> <<today - days, today>>,
                  errors |-> errors,
                  status |-> IF status_db = "fails" THEN <<>>
                             ELSE <<[last_sync_result |-> result(errors),
                                     last_sync_days |-> days]>>,
                  result |-> result(errors)]

----------------------------------------------------------------------------
(* sync_date, sync_weight_history and run_sync applied to bounded inputs    *)

MaxDays == 3

\* what one date's sync_date meets: "data" (every pull returns data),
\* "client_fails" (every pull fails), "database_fails" (data, and the
\* database refuses the rows)
DayCase(case) ==
    LET Returns(payload) == [kind |-> "returns", payload |-> payload]
        typical ==
            [sleep |-> Returns([sleepTimeSeconds |-> 25200,
                                sleepScoresOverall |-> 82,
                                overallSleepScoreValue |-> NULL]),
             summary |-> Returns([restingHeartRate |-> 52, totalSteps |-> 9000,
                                  activeKilocalories |-> 400]),
             hrv |-> Returns([lastNightAvg |-> 48, weeklyAvg |-> 50]),
             body_battery |-> Returns([bodyBatteryValuesArray |-> <<NULL, 20, 90>>,
                                       bodyBatteryHighestValue |-> NULL,
                                       bodyBatteryLowestValue |-> NULL]),
             stress |-> Returns([avgStressLevel |-> NULL,
                                 overallStressLevel |-> 35,
                                 maxStressLevel |-> 70]),
             training |-> Returns(
                 [vo2MaxValue |-> 50,
                  mostRecentTrainingLoadBalance |->
                      [type |-> "dict",
                       keys |-> {"metricsTrainingLoadBalanceDTOMap"},
                       map |-> <<[isdict |-> TRUE,
                                  monthlyLoadAerobicLow |-> 100,
                                  monthlyLoadAerobicHigh |-> 200,
                                  monthlyLoadAnaerobic |-> 50]>>],
                  acuteLoad |-> NULL, aggregatedAcuteLoad |-> NULL,
                  chronicLoad |-> NULL, aggregatedChronicLoad |-> NULL])]
    IN  [replies |-> IF case = "client_fails"
                     THEN [g \in DOMAIN typical |->
                               [kind |-> "raises", payload |-> PyNone]]
                     ELSE typical,
         db |-> IF case = "database_fails" THEN "fails" ELSE "ok"]

\* the inputs: of kind "date" for sync_date and its six pulls (every mix of
\* session, database and per-pull reply, then every shape of the training
\* status on an otherwise typical day), of kind "weight" for
\* sync_weight_history and its pull, of kind "pass" for run_sync (every
\* state of the tables in which one table lacks one more date than the
\* others, then every mix of failures)
IngestInputs ==
    LET Raises == [kind |-> "raises", payload |-> PyNone]
        Returns(payload) == [kind |-> "returns", payload |-> payload]
        Sessions == [_client : BOOLEAN, login : {"returns", "raises"}]
        Typical == DayCase("data").replies
        Device(low, high, anaerobic) ==
            [isdict |-> TRUE, monthlyLoadAerobicLow |-> low,
             monthlyLoadAerobicHigh |-> high, monthlyLoadAnaerobic |-> anaerobic]
        NotADevice == [isdict |-> FALSE, monthlyLoadAerobicLow |-> NULL,
                       monthlyLoadAerobicHigh |-> NULL,
                       monthlyLoadAnaerobic |-> NULL]
        LoadBalance(keys, map) == [type |-> "dict", keys |-> keys, map |-> map]
        LoadBalances ==
            {[type |-> "None", keys |-> {}, map |-> <<>>],
             [type |-> "str", keys |-> {}, map |-> <<>>],
             LoadBalance({}, <<>>),
             LoadBalance({"userProfilePK"}, <<>>),
             LoadBalance({"metricsTrainingLoadBalanceDTOMap"}, <<>>),
             LoadBalance({"metricsTrainingLoadBalanceDTOMap"},
                         <<Device(0, NULL, 0)>>),
             LoadBalance({"metricsTrainingLoadBalanceDTOMap"},
                         <<NotADevice, Device(100, 200, 50)>>),
             LoadBalance({"metricsTrainingLoadBalanceDTOMap"},
                         <<Device(120, NULL, NULL), Device(5, 5, 5)>>)}
        Training(vo2, load_balance, acute, agg_acute, chronic) ==
            [vo2MaxValue |-> vo2, mostRecentTrainingLoadBalance |-> load_balance,
             acuteLoad |-> acute, aggregatedAcuteLoad |-> agg_acute,
             chronicLoad |-> chronic, aggregatedChronicLoad |-> NULL]
        Sleep(seconds, overall) ==
            [sleepTimeSeconds |-> seconds, sleepScoresOverall |-> overall,
             overallSleepScoreValue |-> NULL]
        Summary(rhr, steps, calories) ==
            [restingHeartRate |-> rhr, totalSteps |-> steps,
             activeKilocalories |-> calories]
        BodyBattery(levels, highest, lowest) ==
            [bodyBatteryValuesArray |-> levels,
             bodyBatteryHighestValue |-> highest,
             bodyBatteryLowestValue |-> lowest]
        Stress(avg_level, overall, max_level) ==
            [avgStressLevel |-> avg_level, overallStressLevel |-> overall,
             maxStressLevel |-> max_level]
        Weights(entries) == Returns([dailyWeightSummaries |-> entries])
        Entry(date, weight) == [summaryDate |-> date, weight |-> weight]
        Window == {Day0 - i : i \in 0 .. MaxDays - 1}
        Tables == {"sleep", "resting_hr", "hrv", "body_battery", "stress",
                   "vo2max", "training_load", "steps", "active_calories"}
    IN  {[kind |-> "date", session |-> session, db |-> db,
          replies |-> [sleep |-> sleep, summary |-> summary, hrv |-> hrv,
                       body_battery |-> bb, stress |-> stress,
                       training |-> training]] :
            session \in Sessions, db \in {"ok", "fails"},
            sleep \in {Raises, Returns(Sleep(NULL, NULL)), Typical.sleep},
            summary \in {Raises, Returns([empty |-> TRUE]),
                         Returns(Summary(0, 0, NULL)), Typical.summary},
            hrv \in {Raises, Returns(PyNone), Typical.hrv},
            bb \in {Raises, Typical.body_battery,
                    Returns(BodyBattery(<<>>, 75, 10))},
            stress \in {Raises, Returns(Stress(0, NULL, 60)), Typical.stress},
            training \in {Raises, Typical.training,
                          Returns(Training(NULL,
                                      [type |-> "None", keys |-> {}, map |-> <<>>],
                                      300, NULL, 280))}}
        \cup
        {[kind |-> "date", session |-> [_client |-> TRUE, login |-> "returns"],
          db |-> "ok",
          replies |-> [Typical EXCEPT !.training =
                          Returns(Training(vo2, load_balance, acute, agg_acute,
                                           chronic))]] :
            vo2 \in {NULL, 50}, load_balance \in LoadBalances,
            acute \in {NULL, 0, 300}, agg_acute \in {NULL, 250},
            chronic \in {NULL, 280}}
        \cup
        {[kind |-> "weight", session |-> session, db |-> db, reply |-> reply] :
            session \in Sessions, db \in {"ok", "fails"},
            reply \in {Raises, Returns(PyNone), Returns([empty |-> TRUE]),
                       Weights(<<>>),
                       Weights(<<Entry(Day0, 80000), Entry(Day0 - 1, NULL),
                                 Entry(NULL, 79000)>>)}}
        \cup
        {[kind |-> "pass", days |-> days, today |-> Day0,
          session |-> [_client |-> TRUE, login |-> "returns"],
          db_tables |-> [t \in Tables |-> IF t = odd THEN A \ {lacking} ELSE A],
          work |-> [d \in Window |-> "data"],
          weight |-> [reply |-> Raises, db |-> "ok"], status_db |-> "ok"] :
            days \in 1 .. MaxDays, odd \in Tables,
            A \in SUBSET Window, lacking \in Window}
        \cup
        {[kind |-> "pass", days |-> days, today |-> Day0, session |-> session,
          db_tables |-> [t \in Tables |-> A],
          work |-> work, weight |-> [reply |-> reply, db |-> db],
          status_db |-> status_db] :
            days \in {MaxDays - 1, MaxDays},
            session \in {x \in Sessions : ~x._client},
            A \in {{}, {Day0 - 1}},
            work \in [Window -> {"data", "client_fails", "database_fails"}],
            reply \in {Raises, Weights(<<Entry(Day0, 80000)>>)},
            db \in {"ok", "fails"}, status_db \in {"ok", "fails"}}

InitIngest ==
    /\ InitPipeline
    /\ env = [api_key |-> FALSE, base_url |-> FALSE, anthropic |-> FALSE]
    /\ input \in IngestInputs
    /\ output = NoOutput

\* one pull of the wearable client: one of the six of sync_date, or
\* get_weight_range
ApplyPull ==
    \/ /\ input.kind = "date"
       /\ \E k \in DOMAIN Groups :
             Applied("pull", [operation |-> Groups[k],
                              returned |-> Pull(input.session,
                                                input.replies[Groups[k]])])
    \/ /\ input.kind = "weight"
       /\ Applied("pull", [operation |-> "weight_range",
                           returned |-> Pull(input.session, input.reply)])

\* sync_date(date_str)
ApplySyncDate ==
    /\ input.kind = "date"
    /\ Applied("sync_date",
               sync_date(1, <<>>, input.session, input.replies, input.db))

\* sync_weight_history(start_date, end_date)
ApplySyncWeightHistory ==
    /\ input.kind = "weight"
    /\ Applied("sync_weight_history",
               sync_weight_history(input.session, input.reply, input.db))

\* run_sync(days)
ApplyRunSync ==
    /\ input.kind = "pass"
    /\ Applied("run_sync",
               run_sync(input.days, input.today, input.session, input.db_tables,
                        [d \in DOMAIN input.work |-> DayCase(input.work[d])],
                        input.weight, input.status_db))

NextIngest ==
    \/ ApplyPull
    \/ ApplySyncDate
    \/ ApplySyncWeightHistory
    \/ ApplyRunSync

SpecIngest == InitIngest /\ [][NextIngest]_vars

----------------------------------------------------------------------------
(* Properties of the recommendation cache, checked under Spec               *)

\* C1: get_recommendations(force=False) answers from the slot, with cached=true,
\* exactly when the stored hash equals the hash of the data it has just read, the
\* entry is younger than the 6-hour TTL (strictly) and its list is non-empty; in
\* every other case it runs the rules and the narrative generator, replaces the
\* slot with what it computed and answers cached=false.
C1_HitExactlyWhenFresh ==
    [][\A c \in SeqCallers :
        /\ (pc[c] = "fetch" /\ pc'[c] # "fetch" /\ ~force[c]) =>
              IF /\ cache.hash = DataHash(store)
                 /\ now - cache.timestamp < 6 * 3600
                 /\ cache.recommendations \notin {NoneList, <<>>}
              THEN /\ pc'[c] = "done"
                   /\ ret'[c] = [recommendations |-> cache.recommendations,
                                 cached |-> TRUE,
                                 generated_at |-> cache.timestamp]
                   /\ cache' = cache
              ELSE /\ findings'[c] = run_rules(store, DayOf(now))
                   /\ \/ pc'[c] = "llm" /\ cache' = cache
                      \/ /\ pc'[c] = "done"
                         /\ ret'[c].cached = FALSE
                         /\ ret'[c].generated_at = now
                         /\ cache' = [hash |-> DataHash(store), timestamp |-> now,
                                      recommendations |-> ret'[c].recommendations]
        /\ (pc[c] = "llm" /\ pc'[c] # "llm" /\ ~force[c]) =>
              /\ pc'[c] = "done"
              /\ ret'[c].cached = FALSE
              /\ ret'[c].generated_at = t_now[c]
              /\ cache' = [hash |-> data_hash[c], timestamp |-> t_now[c],
                           recommendations |-> ret'[c].recommendations]]_vars

\* a force=False call has answered from an entry one second short of the TTL
C1_Witness ==
    \E c \in SeqCallers :
        /\ pc[c] = "done" /\ IsRecommendations(ret[c]) /\ ~force[c]
        /\ ret[c].cached
        /\ now - ret[c].generated_at = CACHE_TTL - 1

\* C2 as stated: for any data, when a force=False call follows a force=False
\* call with the data unchanged and less than the TTL after the time the first
\* reported, the second answers cached=true with the list the first returned.
C2_Original ==
    [][\A c \in SeqCallers :
        (/\ pc[c] = "fetch" /\ pc'[c] # "fetch" /\ ~force[c]
         /\ last # NoLast
         /\ last.hash = DataHash(store)
         /\ now - last.generated_at < CACHE_TTL)
        => /\ pc'[c] = "done"
           /\ ret'[c].cached = TRUE
           /\ ret'[c].recommendations = last.recommendations]_vars

\* C2, amended: the same, for data on which the first call returned a non-empty
\* list.
C2_SecondCallCached ==
    [][\A c \in SeqCallers :
        (/\ pc[c] = "fetch" /\ pc'[c] # "fetch" /\ ~force[c]
         /\ last # NoLast
         /\ last.hash = DataHash(store)
         /\ now - last.generated_at < CACHE_TTL
         /\ last.recommendations # <<>>)
        => /\ pc'[c] = "done"
           /\ ret'[c].cached = TRUE
           /\ ret'[c].recommendations = last.recommendations]_vars

\* a force=False call has answered cached=true with the non-empty list of the
\* force=False call before it, some time after that call
C2_Witness ==
    \E c \in SeqCallers :
        /\ pc[c] = "done" /\ IsRecommendations(ret[c]) /\ ~force[c]
        /\ ret[c].cached
        /\ ret[c].recommendations # <<>>
        /\ ret[c].generated_at < now
        /\ last.recommendations = ret[c].recommendations

\* C3: get_recommendations(force=True) never answers from the slot: whatever the
\* slot holds, a fresh entry included, it runs the rules on the data it read,
\* overwrites the slot with the new hash, timestamp and list, and answers
\* cached=false.
C3_ForceRecomputes ==
    [][\A c \in SeqCallers :
        /\ (pc[c] = "fetch" /\ pc'[c] # "fetch" /\ force[c]) =>
              /\ findings'[c] = run_rules(store, DayOf(now))
              /\ \/ pc'[c] = "llm" /\ cache' = cache
                 \/ /\ pc'[c] = "done"
                    /\ ret'[c].cached = FALSE
                    /\ ret'[c].generated_at = now
                    /\ cache' = [hash |-> DataHash(store), timestamp |-> now,
                                 recommendations |-> ret'[c].recommendations]
        /\ (pc[c] = "llm" /\ pc'[c] # "llm" /\ force[c]) =>
              /\ pc'[c] = "done"
              /\ ret'[c].cached = FALSE
              /\ ret'[c].generated_at = t_now[c]
              /\ cache' = [hash |-> data_hash[c], timestamp |-> t_now[c],
                           recommendations |-> ret'[c].recommendations]]_vars

\* a force=True call found a fresh entry in the slot, some time after the entry
\* was made, and has answered cached=false with a list of its own
C3_Witness ==
    \E c \in SeqCallers :
        /\ pc[c] = "done" /\ IsRecommendations(ret[c]) /\ force[c]
        /\ entry_fresh[c]
        /\ ~ret[c].cached
        /\ ret[c].generated_at = now /\ now > StartTime
        /\ cache.timestamp = now

\* C4: get_rules_only never invokes the narrative generator and never writes the
\* slot: across every step of a get_rules_only call the slot and the count of
\* model requests are unchanged, and the call returns the findings of a rules
\* run on the data it read with count equal to their number.
C4_RulesOnlyFrame ==
    [][\A c \in SeqCallers :
        (pc[c] = "rules_fetch" \/ pc'[c] = "rules_fetch") =>
            /\ cache' = cache
            /\ requests' = requests
            /\ pc'[c] \in {"rules_fetch", "done"}
            /\ pc'[c] = "done" =>
                  /\ ret'[c].findings = run_rules(store, DayOf(now))
                  /\ ret'[c].count = Len(ret'[c].findings)]_vars

\* get_rules_only has returned findings while the slot holds a computed entry
C4_Witness ==
    \E c \in SeqCallers :
        /\ pc[c] = "done" /\ ~IsRecommendations(ret[c])
        /\ ret[c].count > 0
        /\ cache.recommendations # NoneList
        /\ cache.hash # DataHash(store)

\* C5 as stated: when the model client raises on send, get_recommendations
\* returns (nothing propagates) a non-empty list of at most five items, the i-th
\* made from the i-th finding.
C5_Original ==
    \A c \in SeqCallers :
        (pc[c] = "done" /\ response[c].kind = "raise") =>
            /\ IsRecommendations(ret[c])
            /\ ret[c].recommendations # <<>>
            /\ Len(ret[c].recommendations) <= 5
            /\ \A i \in 1..Len(ret[c].recommendations) :
                  /\ i <= Len(findings[c])
                  /\ ret[c].recommendations[i].text = findings[c][i].message

\* C5, amended: when the model client raises on send, get_recommendations
\* returns (nothing propagates) the list made from the first min(5, n) of the n
\* findings, the i-th item from the i-th finding: non-empty when there is a
\* finding, empty when there is none.
C5_FallbackOnRaise ==
    \A c \in SeqCallers :
        (pc[c] = "done" /\ response[c].kind = "raise") =>
            /\ IsRecommendations(ret[c])
            /\ ~ret[c].cached
            /\ Len(ret[c].recommendations) <= 5
            /\ Len(ret[c].recommendations) = Min(5, Len(findings[c]))
            /\ \A i \in 1..Len(ret[c].recommendations) :
                  /\ ret[c].recommendations[i].text = findings[c][i].message
                  /\ ret[c].recommendations[i].severity = findings[c][i].severity
                  /\ ret[c].recommendations[i].metrics = <<findings[c][i].category>>

\* the client raised while more than five findings were waiting, and the call
\* has returned five items
C5_Witness ==
    \E c \in SeqCallers :
        /\ pc[c] = "done" /\ response[c].kind = "raise"
        /\ Len(findings[c]) > 5
        /\ Len(ret[c].recommendations) = 5

\* C6: with neither a key nor an endpoint configured, or with the client library
\* missing, no model request is ever issued, a call that computes returns the
\* fallback rendering of its findings, and the slot never holds anything but a
\* fallback rendering.
C6_UnconfiguredFallback ==
    ((~env.api_key /\ ~env.base_url) \/ ~env.anthropic) =>
        /\ \A c \in SeqCallers :
              /\ pc[c] # "llm"
              /\ requests[c] = 0
              /\ response[c] = NoReply
              /\ (pc[c] = "done" /\ IsRecommendations(ret[c]) /\ ~ret[c].cached) =>
                    ret[c].recommendations = findings_to_recommendations(findings[c])
        /\ \/ cache.recommendations = NoneList
           \/ \E s \in Stores : \E t \in TimePoints :
                 cache.recommendations =
                     findings_to_recommendations(run_rules(s, DayOf(t)))

\* with nothing configured a call has computed and returned a non-empty fallback
C6_Witness ==
    \E c \in SeqCallers :
        /\ ~env.api_key /\ ~env.base_url /\ env.anthropic
        /\ pc[c] = "done" /\ IsRecommendations(ret[c]) /\ ~ret[c].cached
        /\ ret[c].recommendations # <<>>

\* C7 as stated: whatever the model answers, the call returns at most five items;
\* an answer that is not JSON, or is not an array of recommendation objects,
\* yields the fallback rendering; an array of recommendation objects yields its
\* first five items.
C7_Original ==
    \A c \in SeqCallers :
        (pc[c] = "done" /\ response[c] # NoReply) =>
            LET reply == response[c]
                IsObject(item) == DOMAIN item = {"title", "text", "severity", "metrics"}
                well_formed ==
                    /\ reply.kind = "json" /\ reply.top = "array"
                    /\ \A i \in 1..Len(reply.items) : IsObject(reply.items[i])
            IN  /\ Len(ret[c].recommendations) <= 5
                /\ IF well_formed
                   THEN ret[c].recommendations = FirstN(reply.items, 5)
                   ELSE ret[c].recommendations =
                            findings_to_recommendations(findings[c])

\* C8: one invocation of the narrative generator makes at most one model request:
\* a failed attempt is followed by the fallback and no second request, and a
\* call answered from the slot makes none.
C8_AtMostOneRequest ==
    \A c \in SeqCallers :
        /\ requests[c] <= 1
        /\ (pc[c] = "done" /\ IsRecommendations(ret[c]) /\ ret[c].cached) =>
              requests[c] = 0
        /\ (pc[c] = "done" /\ response[c].kind \in {"raise", "no_content", "not_json"}) =>
              /\ requests[c] = 1
              /\ ret[c].recommendations = findings_to_recommendations(findings[c])

\* a call whose one request failed has returned the fallback of its findings
C8_Witness ==
    \E c \in SeqCallers :
        /\ pc[c] = "done" /\ response[c].kind = "raise"
        /\ requests[c] = 1
        /\ findings[c] # <<>>
        /\ ret[c].recommendations = findings_to_recommendations(findings[c])

----------------------------------------------------------------------------
(* Properties of the rules engine and the fallback rendering, checked under *)
(* SpecRules                                                                *)

\* C9: the fallback rendering maps the first min(5, n) of the n findings one to
\* one and in order: the i-th recommendation has the i-th finding's rule
\* identifier with underscores turned into spaces and every word capitalised as
\* title, its message as text, its severity, and [its category] as metrics;
\* findings after the fifth are dropped and no findings give an empty list.
C9_FallbackMapping ==
    output.stage = "recommendations" =>
        LET fs == output.findings
            recs == output.recommendations
            Humanized(title, id) ==
                /\ Len(title) = Len(id)
                /\ \A k \in 1..Len(id) :
                      IF id[k] = "_" THEN title[k] = " "
                      ELSE IF k = 1 \/ ~IsLetter(id[k - 1])
                           THEN title[k] = ToUpper(id[k])
                           ELSE title[k] = id[k]
        IN  /\ Len(recs) = Min(5, Len(fs))
            /\ \A i \in 1..Len(recs) :
                  /\ DOMAIN recs[i] = {"title", "text", "severity", "metrics"}
                  /\ Humanized(recs[i].title, Chars(fs[i].rule))
                  /\ recs[i].text = fs[i].message
                  /\ recs[i].severity = fs[i].severity
                  /\ recs[i].metrics = <<fs[i].category>>

\* more than five findings have been rendered into five recommendations
C9_Witness ==
    /\ output.stage = "recommendations"
    /\ Len(output.findings) > 5
    /\ Len(output.recommendations) = 5
    /\ output.recommendations[5].text = output.findings[5].message
    /\ output.findings[6].message # output.findings[5].message

\* C10: the findings of run_rules come in the category order sleep, recovery,
\* stress, body_composition, activity, correlation, within a category in the
\* order of the detector catalog, and no rule identifier comes twice.
C10_FindingsOrder ==
    output.stage # "input" =>
        LET fs == output.findings
            categories == <<"sleep", "recovery", "stress", "body_composition",
                            "activity", "correlation">>
            catalog ==
                <<<<"sleep_low_duration", "sleep_declining", "sleep_low_score">>,
                  <<"hrv_below_baseline", "hrv_weekly_drop", "rhr_elevated",
                    "rhr_trending_up", "body_battery_low">>,
                  <<"stress_high", "stress_trending_up">>,
                  <<"weight_no_data", "weight_rapid_gain", "weight_plateau">>,
                  <<"steps_low", "training_load_spike", "vo2max_declining">>,
                  <<"recovery_deficit", "overtraining_risk">>>>
            Rank(f) == CHOOSE k \in 1..Len(categories) : categories[k] = f.category
            Place(f) == CHOOSE k \in 1..Len(catalog[Rank(f)]) :
                            catalog[Rank(f)][k] = f.rule
        IN  /\ \A i \in 1..Len(fs) :
                  /\ fs[i].category \in {categories[k] : k \in 1..Len(categories)}
                  /\ \E k \in 1..Len(catalog[Rank(fs[i])]) :
                        catalog[Rank(fs[i])][k] = fs[i].rule
            /\ \A i \in 1..Len(fs) : \A j \in 1..Len(fs) :
                  i < j =>
                      \/ Rank(fs[i]) < Rank(fs[j])
                      \/ Rank(fs[i]) = Rank(fs[j]) /\ Place(fs[i]) < Place(fs[j])

\* a run produced an alert ahead of an info finding and an info finding ahead of
\* an alert, in all six categories
C10_Witness ==
    /\ output.stage = "findings"
    /\ {output.findings[i].category : i \in 1..Len(output.findings)} =
          {"sleep", "recovery", "stress", "body_composition", "activity",
           "correlation"}
    /\ \E i, j, k \in 1..Len(output.findings) :
          /\ i < j /\ j < k
          /\ output.findings[i].severity = "alert"
          /\ output.findings[j].severity = "info"
          /\ output.findings[k].severity = "alert"

----------------------------------------------------------------------------
(* Properties of the statistical primitives, checked under SpecPrimitives   *)

C15_UndefinedNeverRaises ==
    /\ output.stage = "avg" =>
          /\ output.result # ZeroDivisionError
          /\ IF \A i \in 1..Len(input.values) : input.values[i] = NULL
             THEN output.result = None
             ELSE output.result.d > 0
    /\ (output.stage = "trend_slope" /\ input.window >= 1) =>
          /\ output.result # ZeroDivisionError
          /\ IF Min(input.window, Len(input.series)) < 3
             THEN output.result = None
             ELSE output.result.d > 0

C15_Witness ==
    \/ /\ output.stage = "avg"
       /\ input.values = <<NULL, NULL>>
       /\ output.result = None
    \/ /\ output.stage = "trend_slope"
       /\ Len(input.series) = 2
       /\ input.window = 5
       /\ output.result = None

\* C16: on a linear series v[i] = a + b*i with at least 3 points, trend_slope
\* is exactly b whatever a is and however far apart the dates are; only the
\* last `window` points count, so values before them do not change the result.
C16_LinearSlope ==
    (/\ output.stage = "trend_slope"
     /\ input.kind = "linear"
     /\ (input.prefix = 0 \/ input.window <= input.n)) =>
        output.result = Int2Rat(input.b)

C16_Witness ==
    /\ output.stage = "trend_slope"
    /\ input.kind = "linear"
    /\ input.a = 80000 /\ input.b = -300
    /\ input.n = 16 /\ input.window = 14
    /\ input.prefix = 2 /\ input.gap = 3
    /\ output.result = Int2Rat(-300)

----------------------------------------------------------------------------
(* Properties of the rules engine on sparse data, checked under SpecSparse  *)

\* C11: whichever metric series are absent, empty or shorter than a detector's
\* stated minimum, run_rules does not raise, no finding comes from a detector
\* whose series has fewer points than its minimum, and the fallback rendering
\* of the findings is produced.
C11_InsufficientSkipped ==
    LET Need(metric, points) == [metric |-> metric, points |-> points]
        Minimum ==
            [sleep_low_duration  |-> {Need("sleep_duration", 3)},
             sleep_declining     |-> {Need("sleep_duration", 3)},
             sleep_low_score     |-> {Need("sleep_score", 3)},
             hrv_below_baseline  |-> {Need("hrv", 7)},
             hrv_weekly_drop     |-> {Need("hrv", 14)},
             rhr_elevated        |-> {Need("resting_hr", 7)},
             rhr_trending_up     |-> {Need("resting_hr", 3)},
             body_battery_low    |-> {Need("body_battery", 3)},
             stress_high         |-> {Need("stress", 3)},
             stress_trending_up  |-> {Need("stress", 3)},
             weight_no_data      |-> {Need("weight", 1)},
             weight_rapid_gain   |-> {Need("weight", 14)},
             weight_plateau      |-> {Need("weight", 21), Need("training_load", 7)},
             steps_low           |-> {Need("steps", 7)},
             training_load_spike |-> {Need("training_load", 14)},
             vo2max_declining    |-> {Need("vo2max", 14)},
             recovery_deficit    |-> {Need("sleep_duration", 1), Need("resting_hr", 1),
                                      Need("hrv", 1)},
             overtraining_risk   |-> {Need("training_load", 1), Need("hrv", 3),
                                      Need("resting_hr", 1)}]
        Points(metric) == IF metric \in DOMAIN input.ms THEN Len(input.ms[metric]) ELSE 0
    IN  /\ output.stage # "raised"
        /\ output.stage \in {"findings", "recommendations"} =>
              \A i \in 1..Len(output.findings) :
                  \A need \in Minimum[output.findings[i].rule] :
                      Points(need.metric) >= need.points
        /\ output.stage = "findings" => ENABLED ApplyFallback

\* a MetricSet with absent, empty and short series beside two usable ones
C11_Witness ==
    /\ output.stage = "findings"
    /\ input.family = "lacking"
    /\ "resting_hr" \notin DOMAIN input.ms
    /\ {"weight", "hrv", "steps", "sleep_score"} \subseteq DOMAIN input.ms
    /\ input.ms["weight"] = <<>>
    /\ Len(input.ms["hrv"]) = 6
    /\ Len(input.ms["steps"]) = 7
    /\ Len(input.ms["sleep_score"]) = 3
    /\ Len(output.findings) = 2

\* C17, as stated: with only a sleep_duration series whose trailing k points
\* within the last 7 (3 <= k <= 7) are constant and below 25200 s, run_rules
\* emits exactly one finding, sleep_low_duration, warning, consecutive_days = k;
\* with fewer than 3 trailing points below 25200 s it emits no
\* sleep_low_duration.
C17_Original ==
    (output.stage = "findings" /\ input.family = "sleep") =>
        LET v == Values(input.ms["sleep_duration"])
            n == Len(v)
            m == Min(7, n)
            k == CHOOSE j \in 0..m :
                    /\ \A i \in (n - j + 1)..n : v[i] < 25200
                    /\ j < m => v[n - j] >= 25200
            fs == output.findings
        IN  /\ k >= 3 => /\ Len(fs) = 1
                         /\ fs[1].rule = "sleep_low_duration"
                         /\ fs[1].severity = "warning"
                         /\ fs[1].data.consecutive_days = k
            /\ k < 3 => \A i \in 1..Len(fs) : fs[i].rule # "sleep_low_duration"

\* C17, amended: in that case run_rules emits exactly one sleep_low_duration
\* finding (warning, consecutive_days = k), first in the list; the only other
\* finding it can emit is sleep_declining, and it emits none when the whole
\* series is constant; with fewer than 3 trailing points below 25200 s it
\* emits no sleep_low_duration.
C17_SleepLowDuration ==
    (output.stage = "findings" /\ input.family = "sleep") =>
        LET v == Values(input.ms["sleep_duration"])
            n == Len(v)
            m == Min(7, n)
            k == CHOOSE j \in 0..m :
                    /\ \A i \in (n - j + 1)..n : v[i] < 25200
                    /\ j < m => v[n - j] >= 25200
            fs == output.findings
            low == {i \in 1..Len(fs) : fs[i].rule = "sleep_low_duration"}
        IN  /\ k >= 3 => /\ low = {1}
                         /\ fs[1].severity = "warning"
                         /\ fs[1].data.consecutive_days = k
                         /\ \A i \in 2..Len(fs) : fs[i].rule = "sleep_declining"
                         /\ (\A i \in 1..n : v[i] = v[1]) => Len(fs) = 1
            /\ k < 3 => low = {}

\* four nights of 7 h, then three of 6.5 h: the streak and the downward trend
C17_Witness ==
    /\ output.stage = "findings"
    /\ input.family = "sleep"
    /\ Values(input.ms["sleep_duration"]) = Const(4, 25200) \o Const(3, 23400)
    /\ Len(output.findings) = 2
    /\ output.findings[1].rule = "sleep_low_duration"
    /\ output.findings[1].data.consecutive_days = 3
    /\ output.findings[2].rule = "sleep_declining"

\* C18, as stated: with an HRV series of at least 7 points, hrv_below_baseline
\* (warning) is emitted exactly when at least 3 of the last 10 days are below
\* the average of the series; with fewer than 7 points it is never emitted.
C18_Original ==
    (output.stage = "findings" /\ input.family = "hrv") =>
        LET v == Values(input.ms["hrv"])
            n == Len(v)
            S == SumSeq(v)
            below == {i \in (n - Min(10, n) + 1)..n : v[i] * n < S}
            fs == output.findings
            emitted == \E i \in 1..Len(fs) :
                          fs[i].rule = "hrv_below_baseline" /\ fs[i].severity = "warning"
        IN  emitted <=> (n >= 7 /\ Cardinality(below) >= 3)

\* C18, amended: hrv_below_baseline (warning) is emitted exactly when the
\* series has at least 7 points and the 3 most recent days are all below the
\* average of the series (a run of at least 3 consecutive days ending today).
C18_BelowBaselineTrailing ==
    (output.stage = "findings" /\ input.family = "hrv") =>
        LET v == Values(input.ms["hrv"])
            n == Len(v)
            S == SumSeq(v)
            fs == output.findings
            emitted == \E i \in 1..Len(fs) :
                          fs[i].rule = "hrv_below_baseline" /\ fs[i].severity = "warning"
        IN  emitted <=> (n >= 7 /\ \A i \in (n - 2)..n : v[i] * n < S)

\* three days below the average inside the last 10, none of them at the end
C18_Witness ==
    /\ output.stage = "findings"
    /\ input.family = "hrv"
    /\ Values(input.ms["hrv"]) = <<50, 50, 50, 50, 30, 30, 30, 50, 50, 50>>
    /\ output.findings = <<>>

\* C19: HRV values of 50 followed by seven of 30 give hrv_below_baseline with
\* consecutive_days = 7; in general consecutive_days is the number of trailing
\* points, within the last 10, below the average of the whole series.
C19_ConsecutiveDays ==
    (output.stage = "findings" /\ input.family = "hrv") =>
        LET v == Values(input.ms["hrv"])
            n == Len(v)
            S == SumSeq(v)
            m == Min(10, n)
            k == CHOOSE j \in 0..m :
                    /\ \A i \in (n - j + 1)..n : v[i] * n < S
                    /\ j < m => v[n - j] * n >= S
            fs == output.findings
        IN  /\ \A i \in 1..Len(fs) :
                  fs[i].rule = "hrv_below_baseline" => fs[i].data.consecutive_days = k
            /\ (\E p \in 1..n : v = Const(p, 50) \o Const(7, 30)) =>
                  \E i \in 1..Len(fs) : /\ fs[i].rule = "hrv_below_baseline"
                                        /\ fs[i].data.consecutive_days = 7

C19_Witness ==
    /\ output.stage = "findings"
    /\ input.family = "hrv"
    /\ Values(input.ms["hrv"]) = Const(20, 50) \o Const(7, 30)
    /\ output.findings[1].rule = "hrv_below_baseline"
    /\ output.findings[1].data.consecutive_days = 7

\* C20, as stated: for a steps series of at least 7 non-negative values,
\* steps_low (info) is emitted exactly when the average of the last 7 values
\* is below 7000; with fewer than 7 points it is never emitted.
C20_Original ==
    (output.stage = "findings" /\ input.family = "steps") =>
        LET v == Values(input.ms["steps"])
            n == Len(v)
            fs == output.findings
            emitted == \E i \in 1..Len(fs) :
                          fs[i].rule = "steps_low" /\ fs[i].severity = "info"
        IN  emitted <=> (n >= 7 /\ SumSeq(SubSeq(v, n - 6, n)) < 7 * 7000)

----------------------------------------------------------------------------
(* Properties of ingestion, checked under SpecSync                          *)

\* C12, as stated: at most one run_sync is executing at any time, manual and
\* scheduled passes alike.
C12_Original == Cardinality(Executing) <= 1

----------------------------------------------------------------------------
(* Properties of concurrent requests, checked under SpecConc                *)

\* C13: under every interleaving of concurrent get_recommendations calls and
\* sync writes, the slot changes only by one call storing, in one step, the
\* hash it read, the time it took and the recommendations it computed from
\* the MetricSet with that hash (so the slot is always the entry of one
\* computation, the last writer's), and a call that returns cached=true
\* returns the slot's recommendations while the slot's hash is the hash that
\* call itself read.
C13_SlotOneComputation ==
    [][LET Computed(h, t, recommendations) ==
               \E s \in Stores :
                   /\ StoreHash[s] = h
                   /\ \/ recommendations =
                            findings_to_recommendations(StoreFindings[s][DayOf(t)])
                      \/ \E reply \in ConcReplies :
                            recommendations = llm_result(reply, StoreFindings[s][DayOf(t)])
           SlotOk(slot) ==
               slot = InitCache \/ Computed(slot.hash, slot.timestamp, slot.recommendations)
       IN  /\ SlotOk(cache')
           /\ cache' # cache =>
                 \E c \in Callers :
                     /\ pc[c] \in {"fetch", "llm"} /\ pc'[c] = "done"
                     /\ ~ret'[c].cached
                     /\ cache' = [hash |-> data_hash'[c], timestamp |-> t_now'[c],
                                  recommendations |-> ret'[c].recommendations]
           /\ \A c \in Callers :
                 (pc[c] = "fetch" /\ pc'[c] = "done" /\ ret'[c].cached) =>
                     /\ ret'[c].recommendations = cache.recommendations
                     /\ cache.hash = data_hash'[c]
                     /\ Computed(data_hash'[c], cache.timestamp, ret'[c].recommendations)
      ]_vars

\* one call is suspended at the model request with the hash of the data before
\* a sync write, the other has just been served the entry of the new data
C13_Witness ==
    \E a \in Callers : \E b \in Callers \ {a} :
        /\ pc[a] = "done" /\ ret[a].cached
        /\ pc[b] = "llm"
        /\ data_hash[b] # data_hash[a]
        /\ cache.hash = data_hash[a]

----------------------------------------------------------------------------
(* Properties of the combined detectors, checked under SpecCombined        *)

\* C21, as stated: recovery_deficit (alert) is emitted exactly when sleep,
\* resting HR and HRV are all present, the average of the last 3 sleep
\* durations is below 21600 s, the latest resting HR is above 1.05 times the
\* RHR average and the average of the last 3 HRV values is below 0.85 times
\* the HRV average.
C21_Original ==
    (output.stage = "findings" /\ input.family = "combined") =>
        LET sleep == Values(input.ms["sleep_duration"])
            rhr == Values(input.ms["resting_hr"])
            hrv == Values(input.ms["hrv"])
            Last(v, k) == SubSeq(v, Len(v) - Min(k, Len(v)) + 1, Len(v))
            fs == output.findings
            emitted == \E i \in 1..Len(fs) :
                          fs[i].rule = "recovery_deficit" /\ fs[i].severity = "alert"
        IN  emitted <=>
               /\ sleep # <<>> /\ rhr # <<>> /\ hrv # <<>>
               /\ SumSeq(Last(sleep, 3)) < 21600 * Len(Last(sleep, 3))
               /\ 100 * Len(rhr) * rhr[Len(rhr)] > 105 * SumSeq(rhr)
               /\ 100 * Len(hrv) * SumSeq(Last(hrv, 3)) < 85 * Len(Last(hrv, 3)) * SumSeq(hrv)

\* C21, amended: as stated, with the sleep series holding at least 3 points.
C21_RecoveryDeficit ==
    (output.stage = "findings" /\ input.family = "combined") =>
        LET sleep == Values(input.ms["sleep_duration"])
            rhr == Values(input.ms["resting_hr"])
            hrv == Values(input.ms["hrv"])
            Last(v, k) == SubSeq(v, Len(v) - Min(k, Len(v)) + 1, Len(v))
            fs == output.findings
            emitted == \E i \in 1..Len(fs) :
                          fs[i].rule = "recovery_deficit" /\ fs[i].severity = "alert"
        IN  emitted <=>
               /\ Len(sleep) >= 3 /\ rhr # <<>> /\ hrv # <<>>
               /\ SumSeq(Last(sleep, 3)) < 21600 * 3
               /\ 100 * Len(rhr) * rhr[Len(rhr)] > 105 * SumSeq(rhr)
               /\ 100 * Len(hrv) * SumSeq(Last(hrv, 3)) < 85 * Len(Last(hrv, 3)) * SumSeq(hrv)

\* two short nights only: every stated condition holds, nothing is emitted
C21_Witness ==
    /\ output.stage = "findings"
    /\ input.family = "combined"
    /\ Values(input.ms["sleep_duration"]) = Const(2, 18000)
    /\ Values(input.ms["resting_hr"]) = Const(6, 50) \o <<60>>
    /\ Values(input.ms["hrv"]) = <<50, 50, 50, 30, 30, 30>>
    /\ \A i \in 1..Len(output.findings) : output.findings[i].rule # "recovery_deficit"

\* C22: overtraining_risk (alert) is emitted exactly when the 7-day
\* training-load average is above 1.2 times the training-load average, the
\* trend slope of the last 7 HRV points is defined and below -0.5, and the
\* latest resting HR is above 1.05 times the RHR average; never when one of
\* the three series is empty.
C22_OvertrainingRisk ==
    (output.stage = "findings" /\ input.family = "combined") =>
        LET tl == Values(input.ms["training_load"])
            rhr == Values(input.ms["resting_hr"])
            Last(v, k) == SubSeq(v, Len(v) - Min(k, Len(v)) + 1, Len(v))
            hrv == Last(Values(input.ms["hrv"]), 7)
            k == Len(hrv)
            \* least squares on indices 0..k-1: slope = 2B / D
            B == SumSeq([i \in 1..k |-> (2 * (i - 1) - (k - 1)) * hrv[i]])
            D == SumSeq([i \in 1..k |-> (2 * (i - 1) - (k - 1)) * (2 * (i - 1) - (k - 1))])
            fs == output.findings
            emitted == \E i \in 1..Len(fs) :
                          fs[i].rule = "overtraining_risk" /\ fs[i].severity = "alert"
        IN  emitted <=>
               /\ tl # <<>> /\ rhr # <<>>
               /\ 10 * Len(tl) * SumSeq(Last(tl, 7)) > 12 * Len(Last(tl, 7)) * SumSeq(tl)
               /\ k >= 3 /\ 4 * B < -D
               /\ 100 * Len(rhr) * rhr[Len(rhr)] > 105 * SumSeq(rhr)

C22_Witness ==
    /\ output.stage = "findings"
    /\ input.family = "combined"
    /\ Values(input.ms["training_load"]) = Const(7, 100) \o Const(7, 200)
    /\ Values(input.ms["hrv"]) = Linear(7, 30, 5) \o Linear(7, 65, -2)
    /\ Values(input.ms["resting_hr"]) = Const(6, 50) \o <<60>>
    /\ \E i \in 1..Len(output.findings) : output.findings[i].rule = "overtraining_risk"

\* C23: weight_plateau (info) is emitted exactly when the weight series has at
\* least 21 points, the training-load series at least 7, the averages of the
\* last 7 weights and of the weights at positions -21..-15 differ by less than
\* 227 g, and the 7-day training-load average is above 0.
C23_WeightPlateau ==
    (output.stage = "findings" /\ input.family = "combined") =>
        LET w == Values(input.ms["weight"])
            tl == Values(input.ms["training_load"])
            n == Len(w)
            recent == SumSeq(SubSeq(w, n - 6, n))
            before == SumSeq(SubSeq(w, n - 20, n - 14))
            fs == output.findings
            emitted == \E i \in 1..Len(fs) :
                          fs[i].rule = "weight_plateau" /\ fs[i].severity = "info"
        IN  emitted <=>
               /\ n >= 21 /\ Len(tl) >= 7
               /\ Abs(recent - before) < 227 * 7
               /\ SumSeq(SubSeq(tl, Len(tl) - 6, Len(tl))) > 0

\* 22 weights: the first one lies outside both compared weeks
C23_Witness ==
    /\ output.stage = "findings"
    /\ input.family = "combined"
    /\ Values(input.ms["weight"]) = <<99999>> \o Const(21, 80000)
    /\ Values(input.ms["training_load"]) = Const(5, 100) \o Const(7, 120)
    /\ \E i \in 1..Len(output.findings) :
          /\ output.findings[i].rule = "weight_plateau"
          /\ output.findings[i].data.change_g = 0

----------------------------------------------------------------------------
(* Further properties of the recommendation cache, checked under Spec       *)

\* C27: a cache hit leaves the slot as it is and reports the slot's timestamp
\* as generated_at; a slot is only ever written with the time its computing
\* call read the clock; and a non-forced call that reads the clock 6 hours or
\* more after the slot's timestamp is not a hit, so hits never extend an
\* entry's life.
C27_HitsDoNotExtend ==
    [][\A c \in SeqCallers :
          /\ (pc[c] = "fetch" /\ pc'[c] = "done" /\ ret'[c].cached) =>
                /\ cache' = cache
                /\ ret'[c].generated_at = cache.timestamp
                /\ ret'[c].recommendations = cache.recommendations
                /\ now - cache.timestamp < CACHE_TTL
          /\ (pc[c] = "fetch" /\ pc'[c] # "fetch" /\ now - cache.timestamp >= CACHE_TTL) =>
                /\ t_now'[c] = now
                /\ pc'[c] = "llm" \/ (~ret'[c].cached /\ cache'.timestamp = now)
          /\ (pc[c] = "llm" /\ pc'[c] = "done") => cache'.timestamp = t_now[c]
      ]_vars

\* a hit one second before the entry expires still reports the original time
C27_Witness ==
    \E c \in SeqCallers :
        /\ pc[c] = "done"
        /\ ret[c] # NoRet
        /\ IsRecommendations(ret[c])
        /\ ret[c].cached
        /\ ret[c].generated_at = StartTime
        /\ now = StartTime + CACHE_TTL - 1
        /\ cache.timestamp = StartTime

----------------------------------------------------------------------------
(* Further properties of ingestion, checked under SpecSync                  *)

\* C28, as stated: a trigger that answers "started" (and creates a _do_sync
\* task) finds no other manually triggered sync running or pending, and a
\* trigger that answers "already_running" creates no task.
C28_Original ==
    [][\A r \in Triggers :
          /\ (sync.task[r] # "created" /\ sync'.task[r] = "created") =>
                /\ sync'.reply[r] = "started"
                /\ \A q \in Triggers \ {r} : sync.task[q] \notin {"created", "running"}
          /\ (sync.reply[r] # "already_running" /\ sync'.reply[r] = "already_running") =>
                sync'.task = sync.task
      ]_vars

\* C29: the scheduler never stops on a failure.  Its task is always in a pass
\* or asleep; every pass, whether run_sync returned or raised, is followed by
\* a sleep, and the only way out of a sleep is the next run_sync(days=3), so
\* exactly one sleep lies between two passes; and after every failed pass
\* another pass is eventually attempted.
C29_SchedulerSurvives ==
    /\ [](sync.sched \in {"created", "backfill", "periodic", "sleeping"})
    /\ [][/\ sync.sched \in {"backfill", "periodic"} => sync'.sched = "sleeping"
          /\ sync.sched = "sleeping" => sync'.sched = "periodic"]_<<sync.sched>>
    /\ \A p \in 0..MaxPasses :
          (sync.sched = "sleeping" /\ sync.outcome = "raised" /\ sync.passes = p)
              ~> (sync.sched = "periodic")

\* asleep after a failed backfill and a failed periodic pass
C29_Witness ==
    /\ sync.sched = "sleeping"
    /\ sync.outcome = "raised"
    /\ sync.passes = 2

----------------------------------------------------------------------------
(* Properties of sync_date and run_sync, checked under SpecIngest           *)

\* C26: for one date's training-status payload sync_date writes at most one
\* training_load row.  When mostRecentTrainingLoadBalance is present the row,
\* if any, carries the summed monthly loads of the first device of the
\* load-balance map and no chronic load, and it is written exactly when that
\* sum is positive; the legacy acuteLoad / chronicLoad fields are used exactly
\* when the load balance is absent (None or empty) and an acute load exists.
\* The row never combines the two shapes.
C26_OneTrainingLoadRow ==
    (input.kind = "date" /\ output.stage = "sync_date") =>
        LET rows == SelectSeq(output.result.rows,
                              LAMBDA r : r.table = "training_load")
            payload == input.replies.training.payload
            pulled == /\ input.replies.training.kind = "returns"
                      /\ input.session._client \/ input.session.login = "returns"
                      /\ payload # PyNone
                      /\ payload # [empty |-> TRUE]
            lb == payload.mostRecentTrainingLoadBalance
            present == lb.type # "None" /\ (lb.type = "dict" => lb.keys # {})
            Z(v) == IF v = NULL THEN 0 ELSE v
            Sum(d) == Z(d.monthlyLoadAerobicLow) + Z(d.monthlyLoadAerobicHigh)
                          + Z(d.monthlyLoadAnaerobic)
            devices == IF lb.type = "dict"
                              /\ "metricsTrainingLoadBalanceDTOMap" \in lb.keys
                       THEN {i \in DOMAIN lb.map : lb.map[i].isdict}
                       ELSE {}
            legacy == IF payload.acuteLoad \notin {NULL, 0}
                      THEN payload.acuteLoad
                      ELSE payload.aggregatedAcuteLoad
            legacy_chronic == IF payload.chronicLoad \notin {NULL, 0}
                              THEN payload.chronicLoad
                              ELSE payload.aggregatedChronicLoad
        IN  /\ Len(rows) <= 1
            /\ ~pulled => rows = <<>>
            /\ (pulled /\ ~output.result.raised /\ present) =>
                  /\ rows # <<>> <=>
                        \E i \in devices : /\ \A j \in devices : i <= j
                                           /\ Sum(lb.map[i]) > 0
                  /\ rows # <<>> =>
                        \E i \in devices :
                            /\ \A j \in devices : i <= j
                            /\ rows[1].columns = [acute_load |-> Sum(lb.map[i]),
                                                  chronic_load |-> NULL]
            /\ (pulled /\ ~output.result.raised /\ ~present) =>
                  /\ rows # <<>> <=> legacy # NULL
                  /\ rows # <<>> =>
                        rows[1].columns =
                            [acute_load |-> legacy, chronic_load |-> legacy_chronic]

\* a payload holding both shapes (legacy acute load 300; a load-balance map
\* whose first entry is no device and whose second sums to 350), stored as
\* the one row of the new shape
C26_Witness ==
    /\ input.kind = "date"
    /\ output.stage = "sync_date"
    /\ input.replies.training.payload # PyNone
    /\ input.replies.training.payload.acuteLoad = 300
    /\ Len(input.replies.training.payload.mostRecentTrainingLoadBalance.map) = 2
    /\ SelectSeq(output.result.rows, LAMBDA r : r.table = "training_load")
           = <<[table |-> "training_load",
                columns |-> [acute_load |-> 350, chronic_load |-> NULL]]>>

\* C24: a pull of the wearable client never raises.  It returns the payload
\* of the library call, and None when that call raises or when get_client()
\* cannot authenticate.  In sync_date (the database working) a pull that
\* returns None stores no row in the tables of its metric, no exception
\* leaves sync_date, and every other metric's rows are exactly those its own
\* payload gives; sync_weight_history likewise stores nothing and returns.
C24_PullsNeverRaise ==
    LET PullFails(reply) ==
            \/ reply.kind = "raises"
            \/ ~input.session._client /\ input.session.login = "raises"
        GroupTables ==
            [sleep |-> {"sleep"},
             summary |-> {"resting_hr", "steps", "active_calories"},
             hrv |-> {"hrv"},
             body_battery |-> {"body_battery"},
             stress |-> {"stress"},
             training |-> {"vo2max", "training_load"}]
    IN  /\ output.stage = "pull" =>
              LET reply == IF input.kind = "date"
                           THEN input.replies[output.result.operation]
                           ELSE input.reply
              IN  /\ ~output.result.returned.raised
                  /\ output.result.returned.value =
                         IF PullFails(reply) THEN PyNone ELSE reply.payload
        /\ (output.stage = "sync_date" /\ input.db = "ok") =>
              /\ ~output.result.raised
              /\ \A k \in DOMAIN Groups :
                    LET reply == input.replies[Groups[k]]
                        stored == SelectSeq(output.result.rows,
                                      LAMBDA r : r.table \in GroupTables[Groups[k]])
                    IN  IF PullFails(reply) \/ reply.payload = PyNone
                        THEN stored = <<>>
                        ELSE stored = RowsFor(Groups[k], reply.payload)
        /\ (output.stage = "sync_weight_history" /\ input.db = "ok") =>
              /\ ~output.result.raised
              /\ (PullFails(input.reply) \/ input.reply.payload = PyNone)
                    => output.result.rows = <<>>

\* the sleep and stress pulls fail, the other metrics of the date are stored
C24_Witness ==
    /\ input.kind = "date"
    /\ output.stage = "sync_date"
    /\ input.session._client
    /\ input.replies.sleep.kind = "raises"
    /\ input.replies.stress.kind = "raises"
    /\ ~output.result.raised
    /\ {output.result.rows[i].table : i \in DOMAIN output.result.rows}
           = {"resting_hr", "steps", "active_calories", "hrv", "body_battery",
              "vo2max", "training_load"}

\* C30: in a pass of run_sync(days) that got past authentication, sync_date
\* is called once for today, whatever the tables hold, and for a past date of
\* the window exactly when one of the nine metric tables had no row for it
\* when the pass read them; no other date is visited.  So a past date present
\* in all nine tables is never fetched again, and one that stays missing from
\* some table is fetched again by every pass.
C30_DatesVisited ==
    (output.stage = "run_sync" /\ input.session.login = "returns") =>
        LET window == {input.today - i : i \in 0 .. input.days - 1}
            visited == {output.result.visited[i] : i \in DOMAIN output.result.visited}
            nine == {"sleep", "resting_hr", "hrv", "body_battery", "stress",
                     "vo2max", "training_load", "steps", "active_calories"}
        IN  /\ input.today \in visited
            /\ visited \subseteq window
            /\ Len(output.result.visited) = Cardinality(visited)
            /\ \A d \in window \ {input.today} :
                  d \in visited <=> \E t \in nine : d \notin input.db_tables[t]

\* a three-day pass: today is in every table and is visited, yesterday is in
\* every table and is passed over, the day before lacks only its vo2max row
\* and is visited
C30_Witness ==
    /\ input.kind = "pass"
    /\ output.stage = "run_sync"
    /\ input.days = 3
    /\ \A t \in DOMAIN input.db_tables \ {"vo2max"} :
          input.db_tables[t] = {Day0, Day0 - 1, Day0 - 2}
    /\ input.db_tables["vo2max"] = {Day0, Day0 - 1}
    /\ output.result.visited = <<Day0, Day0 - 2>>

\* C25: in a pass of run_sync that got past authentication and whose final
\* write the database accepts, an exception of sync_date on one date is
\* counted and does not end the pass: every date of the window that is not
\* passed over is still visited, in order, the weight range from today - days
\* to today is still pulled, exactly one sync_status row is written, holding
\* the result and the number of days, and the result is "success" exactly
\* when no call of sync_date and not the weight pull raised, "completed with
\* N errors" with N the number that raised otherwise.  A pull that fails
\* inside sync_date is treated as absence and is not a failure of the date.
C25_FailuresDoNotAbort ==
    (output.stage = "run_sync" /\ ~output.result.raised) =>
        LET client == [input.session EXCEPT !._client = TRUE]
            DateFails(d) ==
                sync_date(1, <<>>, client, DayCase(input.work[d]).replies,
                          DayCase(input.work[d]).db).raised
            WeightFails ==
                sync_weight_history(client, input.weight.reply,
                                    input.weight.db).raised
            dates == [i \in 1 .. input.days |-> input.today - (i - 1)]
            due(d) == \/ d = input.today
                      \/ \E t \in DOMAIN input.db_tables : d \notin input.db_tables[t]
            failed == {i \in DOMAIN output.result.visited :
                           DateFails(output.result.visited[i])}
            N == Cardinality(failed) + (IF WeightFails THEN 1 ELSE 0)
        IN  /\ output.result.visited = SelectSeq(dates, due)
            /\ output.result.weight_range = <<input.today - input.days, input.today>>
            /\ output.result.errors = N
            /\ Len(output.result.status) = 1
            /\ output.result.status[1].last_sync_days = input.days
            /\ output.result.status[1].last_sync_result = output.result.result
            /\ output.result.result.text = "success" <=> N = 0
            /\ N # 0 => output.result.result =
                   [text |-> "completed with {errors} errors", errors |-> N]
            /\ \A d \in DOMAIN input.work :
                  /\ input.work[d] = "client_fails" => ~DateFails(d)
                  /\ input.work[d] = "database_fails" => DateFails(d)

\* a three-day pass in which sync_date raises for today, every pull of
\* yesterday fails, the day before is stored, and the weight call raises:
\* all three dates are visited and two errors are recorded
C25_Witness ==
    /\ input.kind = "pass"
    /\ output.stage = "run_sync"
    /\ input.days = 3
    /\ input.work[Day0] = "database_fails"
    /\ input.work[Day0 - 1] = "client_fails"
    /\ input.work[Day0 - 2] = "data"
    /\ input.weight = [reply |-> [kind |-> "returns",
                                  payload |-> [dailyWeightSummaries |->
                                      <<[summaryDate |-> Day0, weight |-> 80000]>>]],
                       db |-> "fails"]
    /\ output.result.visited = <<Day0, Day0 - 1, Day0 - 2>>
    /\ output.result.status =
           <<[last_sync_result |-> [text |-> "completed with {errors} errors",
                                    errors |-> 2],
              last_sync_days |-> 3]>>

====
